---------------------------- MODULE Spec2Model ----------------------------
(***************************************************************************)
(* node-waf: the request middleware with its adaptive learner and stats    *)
(* collector, the rule engine's evaluate, the Rule Manager, the rate-limit *)
(* / IP-block module and the pattern modules, as state machines translated *)
(* from lib/core and lib/modules.                                          *)
(*                                                                         *)
(* The specifications share the variables:                                 *)
(*   Spec              the middleware, the learner's timers and the admin  *)
(*                     learning endpoints                                  *)
(*   SpecRuleEngine    RuleEngine.evaluate applied to bounded records      *)
(*   SpecRateLimit     RateLimitModule under requests, manual blocks,      *)
(*                     sweeps and clock advances                           *)
(*   SpecGuard         the middleware with the rate limiter as a module    *)
(*   SpecSweep         RateLimitModule with its sweeper on the clock       *)
(*   SpecRuleManager   RuleManager under add, update, delete, toggle and   *)
(*                     import                                              *)
(*   SpecManagedEngine RuleEngine.evaluate next to the Rule Manager        *)
(*   SpecModules       a pattern module's analyze with a global RegExp     *)
(*   SpecLearner       AdaptiveLearning.recordRequest and its buffers      *)
(*   SpecScorer        AnomalyScorer.calculateScore and updateBaseline     *)
(*                     behind the middleware                               *)
(*   SpecSkip          the middleware with skipPaths, the rate limiter,    *)
(*                     the scorer and the learner                          *)
(*   SpecStats         StatsCollector's hourly, daily and per-IP maps      *)
(*   SpecMetrics       PrometheusMetrics' histogram, summary and counter   *)
(*   SpecRequestId     RuleEngine.generateRequestId under evaluate         *)
(*   SpecScan          the XSS and SQLi patterns and the default rules     *)
(*                     matched on the texts of requests                    *)
(*   SpecCustomRules   RuleManager under add, update and delete of rules   *)
(*                     that carry the ids of built-in rules                *)
(*   SpecCategories    RuleManager's category index under add, import,     *)
(*                     update and delete                                   *)
(* A specification keeps the variables of the others at their idle values. *)
(***************************************************************************)
EXTENDS Integers, Sequences, FiniteSets

VARIABLES
  now,            \* Date.now(), in ticks of the specification at hand
  alive,          \* the process has not died of an uncaught exception
  \* ---- WAFMiddleware / AdaptiveLearning / StatsCollector
  config,         \* the merged configuration object
  threshold,      \* RuleEngine.threshold
  rules,          \* RuleEngine.rules: rule id -> score
  isLearningMode, \* WAFMiddleware.isLearningMode
  isLearning,     \* AdaptiveLearning.isLearning
  currentPhase,   \* AdaptiveLearning.currentPhase
  learningData,   \* AdaptiveLearning.learningData (the fields decisions read)
  timers,         \* pending setTimeout callbacks of setupPhaseTransitions
  stats,          \* StatsCollector.stats
  hourKey,        \* the hour bucket StatsCollector.getHourKey() returns now
  errorListener,  \* a listener for the 'error' event is registered
  last,           \* what the middleware did with the latest request
  \* ---- RuleEngine.evaluate on its own
  reInput,        \* the analysis record handed to evaluate
  decision,       \* the result evaluate returned
  \* ---- RateLimitModule
  rl,             \* the module's configuration fields
  requests,       \* Map ip -> { count, firstRequest, violations }
  blockedIPs,     \* Map ip -> { blockedUntil, blockedAt }
  destroyed,      \* clearInterval(cleanupInterval) has run
  result,         \* what analyze returned for the latest call
  window,         \* per IP: the calls and breaches seen in the record's windows
  \* ---- RuleManager
  ruleMap,        \* RuleManager.rules: Map id -> rule
  rmLast,         \* what the latest RuleManager operation was given and did
  \* ---- XSSModule / SQLiModule
  lastIndex,      \* pattern.pattern.lastIndex of a module's global RegExp
  modLast,        \* what the latest module analyze call was given and returned
  \* ---- AdaptiveLearning.recordRequest
  buffers,        \* learningData.requests and learningData.threats
  recorded,       \* every analysis recordRequest has been given, in order
  \* ---- AnomalyScorer
  scorer,         \* AnomalyScorer.isLearning and its pending learning timer
  baseline,       \* AnomalyScorer.baseline
  anomaly,        \* what the latest calculateScore was given and returned
  \* ---- WAFMiddleware.middleware with the path of the request
  served,         \* requests handed to the middleware: count and latest path
  \* ---- StatsCollector's maps
  statMaps,       \* StatsCollector.stats: startTime and its maps' keys
  wallHour,       \* the wall clock, in hours since the collector was built
  \* ---- PrometheusMetrics
  metrics,        \* PrometheusMetrics.metrics: one histogram, one summary, one counter
  observations,   \* the values observed so far, per family and label key
  pmLast,         \* what the latest PrometheusMetrics call was given and did
  \* ---- RuleEngine.generateRequestId
  requestIds,     \* the requestId of every evaluate call so far, in call order
  \* ---- module and rule scans of real request texts
  cursors,        \* lastIndex of every module pattern's RegExp
  scanned,        \* urls of the requests scanned so far
  \* ---- the Rule Manager's category index
  ruleCategory,   \* the category field of every rule in RuleManager.rules
  ruleCategories  \* RuleManager.ruleCategories: category -> ids

mwVars == <<config, threshold, rules, isLearningMode, isLearning, currentPhase,
            learningData, timers, stats, hourKey, errorListener, last>>
reVars == <<reInput, decision>>
rmVars == <<ruleMap, rmLast>>
modVars == <<lastIndex, modLast>>
rlVars == <<rl, requests, blockedIPs, destroyed, result, window>>
lrnVars == <<buffers, recorded>>
scVars == <<scorer, baseline, anomaly>>
skVars == <<served>>
stVars == <<statMaps, wallHour>>
pmVars == <<metrics, observations, pmLast>>
idVars == <<requestIds>>
scanVars == <<cursors, scanned>>
catVars == <<ruleCategory, ruleCategories>>
extVars ==
  <<lrnVars, scVars, skVars, stVars, pmVars, idVars, scanVars, catVars>>
vars   == <<now, alive, mwVars, reVars, rmVars, rlVars, modVars, extVars>>

-----------------------------------------------------------------------------
(* Bounds of the model *)

MaxModuleScore == 1      \* largest summed module score of a request
MaxAnomalyScore == 1     \* largest anomaly score of a request
MaxRequests == 2         \* requests handled by the middleware in one run
MaxTimers == 3           \* pending phase timers
MaxHour == 1             \* hour buckets the clock walks through
MaxTime == 5             \* last tick of the learner's clock
MaxThreshold == 4        \* largest configured threshold given to evaluate
MaxCustomScore == 2      \* custom rule scores range over -2..2
MaxClock == 5            \* last tick of the rate limiter's clock
MaxCount == 4            \* requests counted in one rate window
MaxLimit == 2            \* largest configured max and maxViolations

(* Program constants *)

DefaultThreshold == 10          \* config.threshold || 10
TIMEOUT_MAX == 9                \* 2^31-1 ms in ticks of 2.5 days (24.855 days)

Phases == {"collecting", "analyzing", "adapting", "protecting"}

(* JavaScript's  v || d  on numbers: 0 is falsy. *)
OrDefault(v, d) == IF v = 0 THEN d ELSE v

RECURSIVE SumScores(_, _)
SumScores(S, f) ==
  IF S = {} THEN 0
  ELSE LET r == CHOOSE x \in S : TRUE
       IN  f[r] + SumScores(S \ {r}, f)

-----------------------------------------------------------------------------
(* RuleEngine *)

(* Built-in rules the rule manager creates, and one custom rule slot. *)
BuiltinScore == [r \in {"xss-script-tag", "sqli-union"} |->
                   IF r = "xss-script-tag" THEN 3 ELSE 4]
RuleIds == DOMAIN BuiltinScore \cup {"custom"}

(* WAFMiddleware.analyzeRequest: every module result adds its score, then   *)
(* the anomaly scorer's totalScore is added to the same running score.     *)
(* matched is the set of flat rules whose pattern matches a search text.   *)
analyzeRequest(moduleScore, anomalyScore, matched) ==
  [score        |-> moduleScore + anomalyScore,
   moduleScore  |-> moduleScore,
   anomalyScore |-> anomalyScore,
   matched      |-> matched]

(* RuleEngine.evaluateRule: some search text matches the rule's pattern. *)
evaluateRule(rule, analysis) == rule \in analysis.matched

(* RuleEngine.evaluate: a first threshold check on the incoming score, the *)
(* scan of the flat rules, and a second check on the updated score.        *)
evaluate(analysis, ruleSet, thr) ==
  LET first        == analysis.score >= thr
      matchedRules == {r \in DOMAIN ruleSet : evaluateRule(r, analysis)}
      score        == analysis.score + SumScores(matchedRules, ruleSet)
      second       == score >= thr
  IN  [action       |-> IF first \/ second THEN "block" ELSE "allow",
       score        |-> score,
       reason       |-> IF second THEN <<score>>
                        ELSE IF first THEN <<analysis.score>> ELSE <<>>,
       matchedRules |-> matchedRules,
       analysis     |-> analysis]

(* RuleEngine.constructor: this.threshold = config.threshold || 10 *)
engineThreshold(cfg) == OrDefault(cfg.threshold, DefaultThreshold)

-----------------------------------------------------------------------------
(* StatsCollector *)

(* recordRequest: totalRequests++ and the bucket of the current hour is    *)
(* created when it is missing.                                             *)
recordRequest(st, hour) ==
  [st EXCEPT !.totalRequests = @ + 1,
             !.hourlyStats   = @ \cup {hour}]

(* recordThreat indexes hourlyStats[getHourKey()] without creating it: the *)
(* call throws a TypeError when that bucket does not exist.                *)
recordThreatThrows(st, hour) == hour \notin st.hourlyStats

(* recordThreat: threatsDetected++ comes first; the counters of the action *)
(* come last and are not reached when the bucket access throws.            *)
recordThreat_Uncounted(st, hour, action) ==
  IF recordThreatThrows(st, hour)
  THEN st
  ELSE [st EXCEPT !.learningModeRequests =
                      IF action = "learning" THEN @ + 1 ELSE @,
                  !.blockedRequests =
                      IF action = "blocked" THEN @ + 1 ELSE @]
recordThreat(st, hour, action) ==
  IF recordThreatThrows(st, hour)
  THEN [st EXCEPT !.threatsDetected = @ + 1]
  ELSE [st EXCEPT !.threatsDetected = @ + 1,
                  !.learningModeRequests =
                      IF action = "learning" THEN @ + 1 ELSE @,
                  !.blockedRequests =
                      IF action = "blocked" THEN @ + 1 ELSE @]

-----------------------------------------------------------------------------
(* WAFMiddleware.middleware *)

NoEvents == [learning |-> 0, dryRun |-> 0, blocked |-> 0, error |-> 0]

(* The try block of the middleware up to the point where it returns or     *)
(* throws: the stats it leaves, the events it emitted, whether next() was  *)
(* called or a 403 sent, and whether an exception reached the catch.       *)
tryBlock(analysis, throwsAt, hourAtThreat) ==
  LET st1 == recordRequest(stats, hourKey)
      out(st, ev, verdict, total, threw, sent) ==
        [stats |-> st, events |-> ev, verdict |-> verdict, total |-> total,
         threw |-> threw, sent |-> sent]
  IN
  IF throwsAt = "analyze"
  THEN out(stats, NoEvents, "none", 0, TRUE, "nothing")
  ELSE IF isLearningMode
  THEN \* handleLearningMode, then next()
       IF analysis.score > 0
       THEN IF recordThreatThrows(st1, hourAtThreat)
            THEN out(recordThreat(st1, hourAtThreat, "learning"), NoEvents,
                     "none", 0, TRUE, "nothing")
            ELSE out(recordThreat(st1, hourAtThreat, "learning"),
                     [NoEvents EXCEPT !.learning = 1], "none", 0, FALSE, "next")
       ELSE out(st1, NoEvents, "none", 0, FALSE, "next")
  ELSE IF throwsAt = "evaluate"
  THEN out(st1, NoEvents, "none", 0, TRUE, "nothing")
  ELSE LET d == evaluate(analysis, rules, threshold)
       IN  IF d.action = "block"
           THEN IF config.dryRun
                THEN IF recordThreatThrows(st1, hourAtThreat)
                     THEN out(recordThreat(st1, hourAtThreat, "dry-run"),
                              NoEvents, d.action, d.score, TRUE, "nothing")
                     ELSE out(recordThreat(st1, hourAtThreat, "dry-run"),
                              [NoEvents EXCEPT !.dryRun = 1],
                              d.action, d.score, FALSE, "next")
                \* handleBlock
                ELSE IF recordThreatThrows(st1, hourAtThreat)
                     THEN out(recordThreat(st1, hourAtThreat, "blocked"),
                              NoEvents, d.action, d.score, TRUE, "nothing")
                     ELSE out(recordThreat(st1, hourAtThreat, "blocked"),
                              [NoEvents EXCEPT !.blocked = 1],
                              d.action, d.score, FALSE, "403")
           ELSE out(st1, NoEvents, d.action, d.score, FALSE, "next")

(* The catch block: emit('error') and next().  EventEmitter.emit throws    *)
(* the error itself when no 'error' listener is registered, and then the   *)
(* exception leaves the middleware before next() is reached.               *)
catchBlock(t) ==
  IF ~t.threw THEN [status |-> t.sent, events |-> t.events, escaped |-> FALSE]
  ELSE IF errorListener
       THEN [status |-> "next", events |-> [t.events EXCEPT !.error = 1],
             escaped |-> FALSE]
       ELSE [status |-> "nothing", events |-> t.events, escaped |-> TRUE]

(* AdaptiveLearning.processRequest, called from handleLearningMode. *)
processRequest(ld) ==
  IF ~isLearning THEN ld ELSE [ld EXCEPT !.requests = @ + 1]

(* One request through the middleware.  throwsAt says which step, if any,  *)
(* throws on this request's input; rollover says that the wall-clock hour  *)
(* changes between recordRequest and recordThreat.                         *)
middleware(moduleScore, anomalyScore, matched, throwsAt, rollover) ==
  /\ alive
  /\ rollover => hourKey < MaxHour
  /\ LET analysis     == analyzeRequest(moduleScore, anomalyScore, matched)
         hourAtThreat == IF rollover THEN hourKey + 1 ELSE hourKey
         t            == tryBlock(analysis, throwsAt, hourAtThreat)
         c            == catchBlock(t)
     IN  /\ stats' = t.stats
         /\ hourKey' = hourAtThreat
         /\ learningData' =
              IF throwsAt # "analyze" /\ isLearningMode
              THEN processRequest(learningData) ELSE learningData
         /\ last' = [handled      |-> TRUE,
                     phase        |-> currentPhase,
                     learningMode |-> isLearningMode,
                     dryRun       |-> config.dryRun,
                     score        |-> analysis.score,
                     verdict      |-> t.verdict,
                     total        |-> t.total,
                     fullScore    |-> evaluate(analysis, rules, threshold).score,
                     threw        |-> t.threw,
                     status       |-> c.status,
                     escaped      |-> c.escaped,
                     events       |-> c.events,
                     blockedBefore |-> stats.blockedRequests]
  /\ UNCHANGED <<now, alive, config, threshold, rules, isLearningMode,
                 isLearning, currentPhase, timers, errorListener>>

(* A request whose module results are given, the rate limiter not being    *)
(* among the modules.                                                      *)
Request(moduleScore, anomalyScore, matched, throwsAt, rollover) ==
  /\ stats.totalRequests < MaxRequests
  /\ middleware(moduleScore, anomalyScore, matched, throwsAt, rollover)
  /\ UNCHANGED <<reVars, rmVars, modVars, extVars, rlVars>>

-----------------------------------------------------------------------------
(* AdaptiveLearning *)

(* setTimeout(fn, delay): a delay below 1 ms or above 2^31-1 ms is set to  *)
(* 1 ms, which is less than one tick.                                      *)
timeoutDelay(delay) == IF delay >= 1 /\ delay <= TIMEOUT_MAX THEN delay ELSE 0

(* setupPhaseTransitions: three timers, at 60%, 80% and 100% of the        *)
(* learning period counted from startTime (the construction time, tick 0). *)
setupPhaseTransitions(period, t) ==
  LET collectingEnd == (period * 6) \div 10
      analyzingEnd  == (period * 8) \div 10
      endTime       == period
      timer(phase, target) ==
        [phase |-> phase, due |-> t + timeoutDelay(target - t)]
  IN  << timer("analyzing", collectingEnd),
         timer("adapting", analyzingEnd),
         timer("protecting", endTime) >>

(* The timer the event loop runs next: the earliest expiry, and the one    *)
(* created first among equal expiries.                                     *)
nextTimer ==
  CHOOSE i \in 1..Len(timers) :
    \A j \in 1..Len(timers) :
      \/ timers[i].due < timers[j].due
      \/ timers[i].due = timers[j].due /\ i <= j

removeAt(seq, i) == SubSeq(seq, 1, i - 1) \o SubSeq(seq, i + 1, Len(seq))

(* A phase timer fires: transitionToPhase(newPhase).  analyzeCollectedData *)
(* defines learningData.threatAnalysis; adaptRules and (through            *)
(* generateLearningReport) finalizeLearning read its fields and throw when *)
(* it is undefined, which in a timer callback is an uncaught exception.    *)
FireTimer ==
  /\ alive
  /\ timers # <<>>
  /\ timers[nextTimer].due <= now
  /\ LET newPhase == timers[nextTimer].phase
     IN  /\ timers' = removeAt(timers, nextTimer)
         /\ currentPhase' = newPhase
         /\ learningData' =
              IF newPhase = "analyzing"
              THEN [learningData EXCEPT !.threatAnalysis = TRUE]
              ELSE learningData
         /\ isLearning' = IF newPhase = "protecting" THEN FALSE ELSE isLearning
         /\ alive' = (newPhase = "analyzing" \/ learningData.threatAnalysis)
  /\ UNCHANGED <<now, config, threshold, rules, isLearningMode, stats,
                 hourKey, errorListener, last>>
  /\ UNCHANGED <<reVars, rmVars, modVars, extVars, rlVars>>

(* POST /waf/learning/start: refused while isLearning; otherwise           *)
(* AdaptiveLearning.startLearning(), which only sets up the timers.        *)
AdminStartLearning ==
  /\ alive
  /\ ~isLearning
  /\ Len(timers) + 3 <= MaxTimers
  /\ timers' = timers \o setupPhaseTransitions(config.learningPeriod, now)
  /\ UNCHANGED <<now, alive, config, threshold, rules, isLearningMode,
                 isLearning, currentPhase, learningData, stats, hourKey,
                 errorListener, last>>
  /\ UNCHANGED <<reVars, rmVars, modVars, extVars, rlVars>>

(* POST /waf/learning/stop: refused unless isLearning; otherwise           *)
(* finalizeLearning().  The report it builds may throw; the endpoint       *)
(* catches that and answers 500, after isLearning was cleared.             *)
AdminStopLearning ==
  /\ alive
  /\ isLearning
  /\ isLearning' = FALSE
  /\ UNCHANGED <<now, alive, config, threshold, rules, isLearningMode,
                 currentPhase, learningData, timers, stats, hourKey,
                 errorListener, last>>
  /\ UNCHANGED <<reVars, rmVars, modVars, extVars, rlVars>>

(* Time passes. *)
AdvanceClock ==
  /\ alive
  /\ now < MaxTime
  /\ now' = now + 1
  /\ UNCHANGED <<alive, mwVars, modVars, extVars, reVars, rmVars, rlVars>>

(* The wall clock enters the next hour. *)
HourTick ==
  /\ alive
  /\ hourKey < MaxHour
  /\ hourKey' = hourKey + 1
  /\ UNCHANGED <<now, alive, config, threshold, rules, isLearningMode,
                 isLearning, currentPhase, learningData, timers, stats,
                 errorListener, last>>
  /\ UNCHANGED <<reVars, rmVars, modVars, extVars, rlVars>>

-----------------------------------------------------------------------------
(* Configurations the model is run with *)

ConfigThresholds == {0, 2}
LearningPeriods == {5, 10}     \* ticks: 12.5 days and 25 days
ThrowPoints == {"none", "analyze", "evaluate"}
PayloadMatches == {{}, {"xss-script-tag"}}   \* a clean and an XSS payload

NoRequest ==
  [handled |-> FALSE, phase |-> "protecting", learningMode |-> FALSE,
   dryRun |-> FALSE, score |-> 0, verdict |-> "none", total |-> 0,
   fullScore |-> 0, threw |-> FALSE, status |-> "nothing", escaped |-> FALSE,
   events |-> NoEvents, blockedBefore |-> 0]

(* createWAF: ConfigManager.loadConfig, RuleManager, RuleEngine,           *)
(* StatsCollector, then the WAFMiddleware constructor, which builds the    *)
(* learner and takes isLearningMode from it once.                          *)
InitMW ==
  /\ config \in [adaptiveLearning : BOOLEAN, dryRun : BOOLEAN,
                 threshold : ConfigThresholds,
                 learningPeriod : LearningPeriods]
  /\ threshold = engineThreshold(config)
  /\ rules = BuiltinScore
  /\ isLearning = config.adaptiveLearning
  /\ currentPhase = IF isLearning THEN "collecting" ELSE "protecting"
  /\ timers = IF isLearning
              THEN setupPhaseTransitions(config.learningPeriod, 0) ELSE <<>>
  /\ isLearningMode = (config.adaptiveLearning /\ isLearning)
  /\ learningData = [requests |-> 0, threatAnalysis |-> FALSE]
  /\ stats = [totalRequests |-> 0, blockedRequests |-> 0,
              threatsDetected |-> 0, learningModeRequests |-> 0,
              hourlyStats |-> {}]
  /\ hourKey = 0
  /\ errorListener \in BOOLEAN
  /\ last = NoRequest

IdleMW ==
  /\ config = [adaptiveLearning |-> FALSE, dryRun |-> FALSE, threshold |-> 3,
               learningPeriod |-> 5]
  /\ threshold = 3
  /\ rules = BuiltinScore
  /\ isLearning = FALSE
  /\ currentPhase = "protecting"
  /\ timers = <<>>
  /\ isLearningMode = FALSE
  /\ learningData = [requests |-> 0, threatAnalysis |-> FALSE]
  /\ stats = [totalRequests |-> 0, blockedRequests |-> 0,
              threatsDetected |-> 0, learningModeRequests |-> 0,
              hourlyStats |-> {}]
  /\ hourKey = 0
  /\ errorListener = FALSE
  /\ last = NoRequest

IdleRE ==
  /\ reInput = <<>>
  /\ decision = <<>>

IdleRL ==
  /\ rl = [enabled |-> FALSE]
  /\ requests = <<>>
  /\ blockedIPs = <<>>
  /\ destroyed = FALSE
  /\ result = <<>>
  /\ window = <<>>

IdleRM ==
  /\ ruleMap = <<>>
  /\ rmLast = <<>>

IdleMod ==
  /\ lastIndex = 0
  /\ modLast = <<>>

IdleClock == now = 0 /\ alive = TRUE

(* new AdaptiveLearning(): learningData.requests = [] and threats = [].    *)
IdleLrn ==
  /\ buffers = [requests |-> <<>>, threats |-> <<>>]
  /\ recorded = <<>>

(* new AnomalyScorer(config) without adaptiveLearning: empty maps,         *)
(* isLearning = true and no timer.                                         *)
NoTimer == {}
NoScore == <<>>

IdleSc ==
  /\ scorer = [isLearning |-> TRUE, timer |-> NoTimer,
               anomalyThreshold |-> 500]
  /\ baseline = [requestFrequency |-> <<>>, userAgentPatterns |-> <<>>,
                 pathPatterns |-> <<>>, queryPatterns |-> <<>>,
                 bodySizePatterns |-> <<>>]
  /\ anomaly = NoScore

(* no request has reached the middleware *)
IdleSk == served = [n |-> 0, path |-> <<>>]

(* new StatsCollector(config): empty maps *)
IdleSt ==
  /\ statMaps = [hourlyStats |-> {}, dailyStats |-> {}, ipStats |-> {},
                 startTime |-> 0]
  /\ wallHour = 0

(* new PrometheusMetrics(config): initializeMetrics, no label sets yet *)
NoCall == <<>>

IdlePm ==
  /\ metrics = [histogram |-> [count |-> 0, sum |-> 0, labelValues |-> <<>>],
                summary   |-> [count |-> 0, sum |-> 0, labelValues |-> <<>>],
                counter   |-> [value |-> 0, labelValues |-> <<>>]]
  /\ observations = [histogram |-> <<>>, summary |-> <<>>]
  /\ pmLast = NoCall

(* no evaluation has been made *)
IdleId == requestIds = <<>>

-----------------------------------------------------------------------------
(* Regular expressions of the modules and of the default rules *)

(* Character classes.  Texts are lower-cased before a scan (flag i), so    *)
(* \w is taken over lower-case letters.                                    *)
Space == {" ", "\t", "\n", "\r"}
Digit == {"0", "1", "2", "3", "4", "5", "6", "7", "8", "9"}
Letter == {"a", "b", "c", "d", "e", "f", "g", "h", "i", "j", "k", "l", "m",
           "n", "o", "p", "q", "r", "s", "t", "u", "v", "w", "x", "y", "z"}
Word == Letter \cup Digit \cup {"_"}
Hex == Digit \cup {"a", "b", "c", "d", "e", "f"}
LineEnd == {"\n", "\r"}

(* Pattern elements: a literal, a quantified character class (max = -1 is  *)
(* unbounded, neg is [^...]), a group of literal alternatives, and $ under *)
(* flag m.  A pattern is the sequence of its top-level alternatives.       *)
lit(s) == [k |-> "lit", s |-> s]
rep(in, neg, min, max, lazy) ==
  [k |-> "rep", in |-> in, neg |-> neg, min |-> min, max |-> max,
   lazy |-> lazy]
one(in) == rep(in, FALSE, 1, 1, FALSE)
ws0 == rep(Space, FALSE, 0, -1, FALSE)
ws1 == rep(Space, FALSE, 1, -1, FALSE)
alt(of) == [k |-> "alt", of |-> of]
end == [k |-> "end"]

charAt(t, i) == SubSeq(t, i, i)

(* String.prototype.toLowerCase on ASCII text *)
UpperCase == "ABCDEFGHIJKLMNOPQRSTUVWXYZ"
LowerCase == "abcdefghijklmnopqrstuvwxyz"

lowerChar(c) ==
  IF \E i \in 1..Len(UpperCase) : charAt(UpperCase, i) = c
  THEN charAt(LowerCase, CHOOSE i \in 1..Len(UpperCase) :
                           charAt(UpperCase, i) = c)
  ELSE c

RECURSIVE toLowerCase(_)
toLowerCase(t) ==
  IF Len(t) = 0 THEN t
  ELSE lowerChar(charAt(t, 1)) \o toLowerCase(SubSeq(t, 2, Len(t)))

(* the text t holds the string s at position i *)
holdsAt(t, i, s) ==
  i + Len(s) - 1 <= Len(t) /\ SubSeq(t, i, i + Len(s) - 1) = s

(* String.prototype.includes *)
includes(t, s) == \E i \in 1..(Len(t) - Len(s) + 1) : holdsAt(t, i, s)

smallest(S) == CHOOSE n \in S : \A m \in S : n <= m
largest(S) == CHOOSE n \in S : \A m \in S : n >= m

(* the longest run of characters of the class e from position i, cut at    *)
(* the element's maximum                                                   *)
runLength(t, i, e) ==
  LET ok(j)  == (charAt(t, j) \in e.in) # e.neg
      limit  == IF e.max >= 0 /\ e.max < Len(t) - i + 1
                THEN e.max ELSE Len(t) - i + 1
  IN  largest({n \in 0..limit : \A j \in i..(i + n - 1) : ok(j)})

(* Backtracking match of the elements p[k..] at position i of t: the       *)
(* position after the match, or 0 when there is none.  A greedy quantifier *)
(* tries the longest run first, a lazy one the shortest; alternatives are  *)
(* tried in their written order.                                           *)
RECURSIVE matchEnd(_, _, _, _)
matchEnd(t, i, p, k) ==
  IF k > Len(p) THEN i
  ELSE LET e == p[k] IN
    CASE e.k = "lit" ->
           IF holdsAt(t, i, e.s) THEN matchEnd(t, i + Len(e.s), p, k + 1)
           ELSE 0
      [] e.k = "end" ->
           IF i = Len(t) + 1 \/ (i <= Len(t) /\ charAt(t, i) \in LineEnd)
           THEN matchEnd(t, i, p, k + 1) ELSE 0
      [] e.k = "alt" ->
           LET fits == {a \in 1..Len(e.of) :
                          /\ holdsAt(t, i, e.of[a])
                          /\ matchEnd(t, i + Len(e.of[a]), p, k + 1) # 0}
           IN  IF fits = {} THEN 0
               ELSE matchEnd(t, i + Len(e.of[smallest(fits)]), p, k + 1)
      [] e.k = "rep" ->
           LET fits == {n \in e.min..runLength(t, i, e) :
                          matchEnd(t, i + n, p, k + 1) # 0}
           IN  IF fits = {} THEN 0
               ELSE matchEnd(t, i + (IF e.lazy THEN smallest(fits)
                                     ELSE largest(fits)), p, k + 1)

(* RegExp.prototype.test of a global pattern: the search starts at         *)
(* lastIndex; a match leaves lastIndex after it, a failure resets it to 0. *)
regexTest(text, pattern, cursor) ==
  LET at(s)  == {a \in 1..Len(pattern) : matchEnd(text, s, pattern[a], 1) # 0}
      starts == {s \in (cursor + 1)..(Len(text) + 1) : at(s) # {}}
  IN  IF starts = {} THEN [found |-> FALSE, lastIndex |-> 0]
      ELSE LET s == smallest(starts)
           IN  [found     |-> TRUE,
                lastIndex |-> matchEnd(text, s, pattern[smallest(at(s))], 1) - 1]

xssPatterns ==
  <<
     \* /<script[^>]*>.*?<\/script>/gi
     [name |-> "script-tag", score |-> 3,
      pattern |->
        <<<<lit("<script"), rep({">"}, TRUE, 0, -1, FALSE), lit(">"),
           rep(LineEnd, TRUE, 0, -1, TRUE), lit("</script>")>>>>],
     \* /<script[^>]*src\s*=/gi
     [name |-> "script-src", score |-> 2,
      pattern |->
        <<<<lit("<script"), rep({">"}, TRUE, 0, -1, FALSE), lit("src"), ws0,
           lit("=")>>>>],
     \* /onload\s*=/gi
     [name |-> "onload-event", score |-> 2,
      pattern |->
        <<<<lit("onload"), ws0, lit("=")>>>>],
     \* /onclick\s*=/gi
     [name |-> "onclick-event", score |-> 2,
      pattern |->
        <<<<lit("onclick"), ws0, lit("=")>>>>],
     \* /onerror\s*=/gi
     [name |-> "onerror-event", score |-> 2,
      pattern |->
        <<<<lit("onerror"), ws0, lit("=")>>>>],
     \* /javascript:/gi
     [name |-> "javascript-url", score |-> 3,
      pattern |->
        <<<<lit("javascript:")>>>>],
     \* /vbscript:/gi
     [name |-> "vbscript-url", score |-> 3,
      pattern |->
        <<<<lit("vbscript:")>>>>],
     \* /expression\s*\(/gi
     [name |-> "expression", score |-> 2,
      pattern |->
        <<<<lit("expression"), ws0, lit("(")>>>>],
     \* /<iframe[^>]*src\s*=/gi
     [name |-> "iframe-src", score |-> 2,
      pattern |->
        <<<<lit("<iframe"), rep({">"}, TRUE, 0, -1, FALSE), lit("src"), ws0,
           lit("=")>>>>],
     \* /<object[^>]*data\s*=/gi
     [name |-> "object-data", score |-> 2,
      pattern |->
        <<<<lit("<object"), rep({">"}, TRUE, 0, -1, FALSE), lit("data"), ws0,
           lit("=")>>>>],
     \* /<embed[^>]*src\s*=/gi
     [name |-> "embed-src", score |-> 2,
      pattern |->
        <<<<lit("<embed"), rep({">"}, TRUE, 0, -1, FALSE), lit("src"), ws0,
           lit("=")>>>>],
     \* /<form[^>]*action\s*=/gi
     [name |-> "form-action", score |-> 1,
      pattern |->
        <<<<lit("<form"), rep({">"}, TRUE, 0, -1, FALSE), lit("action"), ws0,
           lit("=")>>>>],
     \* /<meta[^>]*http-equiv\s*=\s*["']refresh["']/gi
     [name |-> "meta-refresh", score |-> 2,
      pattern |->
        <<<<lit("<meta"), rep({">"}, TRUE, 0, -1, FALSE), lit("http-equiv"),
           ws0, lit("="), ws0, one({"\"", "'"}), lit("refresh"),
           one({"\"", "'"})>>>>],
     \* /<base[^>]*href\s*=/gi
     [name |-> "base-href", score |-> 2,
      pattern |->
        <<<<lit("<base"), rep({">"}, TRUE, 0, -1, FALSE), lit("href"), ws0,
           lit("=")>>>>],
     \* /<link[^>]*href\s*=/gi
     [name |-> "link-href", score |-> 1,
      pattern |->
        <<<<lit("<link"), rep({">"}, TRUE, 0, -1, FALSE), lit("href"), ws0,
           lit("=")>>>>],
     \* /<style[^>]*>.*?<\/style>/gi
     [name |-> "style-tag", score |-> 1,
      pattern |->
        <<<<lit("<style"), rep({">"}, TRUE, 0, -1, FALSE), lit(">"),
           rep(LineEnd, TRUE, 0, -1, TRUE), lit("</style>")>>>>],
     \* /alert\s*\(/gi
     [name |-> "alert-payload", score |-> 2,
      pattern |->
        <<<<lit("alert"), ws0, lit("(")>>>>],
     \* /confirm\s*\(/gi
     [name |-> "confirm-payload", score |-> 2,
      pattern |->
        <<<<lit("confirm"), ws0, lit("(")>>>>],
     \* /prompt\s*\(/gi
     [name |-> "prompt-payload", score |-> 2,
      pattern |->
        <<<<lit("prompt"), ws0, lit("(")>>>>],
     \* /document\.cookie/gi
     [name |-> "document-cookie", score |-> 3,
      pattern |->
        <<<<lit("document.cookie")>>>>],
     \* /document\.write/gi
     [name |-> "document-write", score |-> 2,
      pattern |->
        <<<<lit("document.write")>>>>],
     \* /innerHTML\s*=/gi
     [name |-> "innerHTML", score |-> 2,
      pattern |->
        <<<<lit("innerhtml"), ws0, lit("=")>>>>],
     \* /outerHTML\s*=/gi
     [name |-> "outerHTML", score |-> 2,
      pattern |->
        <<<<lit("outerhtml"), ws0, lit("=")>>>>],
     \* /&#x?[0-9a-fA-F]+;/gi
     [name |-> "html-encoded", score |-> 1,
      pattern |->
        <<<<lit("&#"), rep({"x"}, FALSE, 0, 1, FALSE),
           rep(Hex, FALSE, 1, -1, FALSE), lit(";")>>>>],
     \* /%[0-9a-fA-F]{2}/gi
     [name |-> "url-encoded", score |-> 1,
      pattern |->
        <<<<lit("%"), rep(Hex, FALSE, 2, 2, FALSE)>>>>],
     \* /<svg[^>]*>.*?<script/gi
     [name |-> "svg-script", score |-> 3,
      pattern |->
        <<<<lit("<svg"), rep({">"}, TRUE, 0, -1, FALSE), lit(">"),
           rep(LineEnd, TRUE, 0, -1, TRUE), lit("<script")>>>>],
     \* /data:text\/html.*javascript/gi
     [name |-> "data-uri-javascript", score |-> 3,
      pattern |->
        <<<<lit("data:text/html"), rep(LineEnd, TRUE, 0, -1, FALSE),
           lit("javascript")>>>>]
  >>

sqliPatterns ==
  <<
     \* /union\s+select/gi
     [name |-> "union-select", score |-> 4,
      pattern |->
        <<<<lit("union"), ws1, lit("select")>>>>],
     \* /union\s+all\s+select/gi
     [name |-> "union-all-select", score |-> 4,
      pattern |->
        <<<<lit("union"), ws1, lit("all"), ws1, lit("select")>>>>],
     \* /or\s+1\s*=\s*1/gi
     [name |-> "or-1-1", score |-> 3,
      pattern |->
        <<<<lit("or"), ws1, lit("1"), ws0, lit("="), ws0, lit("1")>>>>],
     \* /or\s+1\s*=\s*0/gi
     [name |-> "or-1-0", score |-> 3,
      pattern |->
        <<<<lit("or"), ws1, lit("1"), ws0, lit("="), ws0, lit("0")>>>>],
     \* /and\s+1\s*=\s*1/gi
     [name |-> "and-1-1", score |-> 3,
      pattern |->
        <<<<lit("and"), ws1, lit("1"), ws0, lit("="), ws0, lit("1")>>>>],
     \* /and\s+1\s*=\s*0/gi
     [name |-> "and-1-0", score |-> 3,
      pattern |->
        <<<<lit("and"), ws1, lit("1"), ws0, lit("="), ws0, lit("0")>>>>],
     \* /sleep\s*\(/gi
     [name |-> "sleep-function", score |-> 4,
      pattern |->
        <<<<lit("sleep"), ws0, lit("(")>>>>],
     \* /waitfor\s+delay/gi
     [name |-> "waitfor-delay", score |-> 4,
      pattern |->
        <<<<lit("waitfor"), ws1, lit("delay")>>>>],
     \* /benchmark\s*\(/gi
     [name |-> "benchmark-function", score |-> 4,
      pattern |->
        <<<<lit("benchmark"), ws0, lit("(")>>>>],
     \* /extractvalue\s*\(/gi
     [name |-> "extractvalue", score |-> 4,
      pattern |->
        <<<<lit("extractvalue"), ws0, lit("(")>>>>],
     \* /updatexml\s*\(/gi
     [name |-> "updatexml", score |-> 4,
      pattern |->
        <<<<lit("updatexml"), ws0, lit("(")>>>>],
     \* /exp\s*\(/gi
     [name |-> "exp-function", score |-> 3,
      pattern |->
        <<<<lit("exp"), ws0, lit("(")>>>>],
     \* /;\s*(select|insert|update|delete|drop|create|alter)/gi
     [name |-> "semicolon", score |-> 3,
      pattern |->
        <<<<lit(";"), ws0,
           alt(<<"select", "insert", "update", "delete", "drop", "create",
                 "alter">>)>>>>],
     \* /--\s*$/gm
     [name |-> "comment-dash", score |-> 2,
      pattern |->
        <<<<lit("--"), ws0, end>>>>],
     \* /#\s*$/gm
     [name |-> "comment-hash", score |-> 2,
      pattern |->
        <<<<lit("#"), ws0, end>>>>],
     \* /\/\*.*?\*\//gi
     [name |-> "comment-slash", score |-> 2,
      pattern |->
        <<<<lit("/*"), rep(LineEnd, TRUE, 0, -1, TRUE), lit("*/")>>>>],
     \* /version\s*\(/gi
     [name |-> "mysql-version", score |-> 3,
      pattern |->
        <<<<lit("version"), ws0, lit("(")>>>>],
     \* /database\s*\(/gi
     [name |-> "mysql-database", score |-> 3,
      pattern |->
        <<<<lit("database"), ws0, lit("(")>>>>],
     \* /user\s*\(/gi
     [name |-> "mysql-user", score |-> 3,
      pattern |->
        <<<<lit("user"), ws0, lit("(")>>>>],
     \* /current_user\s*\(/gi
     [name |-> "mysql-current-user", score |-> 3,
      pattern |->
        <<<<lit("current_user"), ws0, lit("(")>>>>],
     \* /information_schema/gi
     [name |-> "information-schema", score |-> 3,
      pattern |->
        <<<<lit("information_schema")>>>>],
     \* /mysql\.tables/gi
     [name |-> "mysql-tables", score |-> 3,
      pattern |->
        <<<<lit("mysql.tables")>>>>],
     \* /load_file\s*\(/gi
     [name |-> "load-file", score |-> 4,
      pattern |->
        <<<<lit("load_file"), ws0, lit("(")>>>>],
     \* /into\s+outfile/gi
     [name |-> "into-outfile", score |-> 4,
      pattern |->
        <<<<lit("into"), ws1, lit("outfile")>>>>],
     \* /into\s+dumpfile/gi
     [name |-> "into-dumpfile", score |-> 4,
      pattern |->
        <<<<lit("into"), ws1, lit("dumpfile")>>>>],
     \* /grant\s+.*\s+on/gi
     [name |-> "grant-privileges", score |-> 5,
      pattern |->
        <<<<lit("grant"), ws1, rep(LineEnd, TRUE, 0, -1, FALSE), ws1,
           lit("on")>>>>],
     \* /revoke\s+.*\s+on/gi
     [name |-> "revoke-privileges", score |-> 5,
      pattern |->
        <<<<lit("revoke"), ws1, rep(LineEnd, TRUE, 0, -1, FALSE), ws1,
           lit("on")>>>>],
     \* /drop\s+table/gi
     [name |-> "drop-table", score |-> 5,
      pattern |->
        <<<<lit("drop"), ws1, lit("table")>>>>],
     \* /drop\s+database/gi
     [name |-> "drop-database", score |-> 5,
      pattern |->
        <<<<lit("drop"), ws1, lit("database")>>>>],
     \* /truncate\s+table/gi
     [name |-> "truncate-table", score |-> 4,
      pattern |->
        <<<<lit("truncate"), ws1, lit("table")>>>>],
     \* /delete\s+from/gi
     [name |-> "delete-from", score |-> 4,
      pattern |->
        <<<<lit("delete"), ws1, lit("from")>>>>],
     \* /alter\s+table/gi
     [name |-> "alter-table", score |-> 4,
      pattern |->
        <<<<lit("alter"), ws1, lit("table")>>>>],
     \* /create\s+table/gi
     [name |-> "create-table", score |-> 4,
      pattern |->
        <<<<lit("create"), ws1, lit("table")>>>>],
     \* /create\s+database/gi
     [name |-> "create-database", score |-> 4,
      pattern |->
        <<<<lit("create"), ws1, lit("database")>>>>],
     \* /if\s*\(/gi
     [name |-> "if-statement", score |-> 3,
      pattern |->
        <<<<lit("if"), ws0, lit("(")>>>>],
     \* /case\s+when/gi
     [name |-> "case-statement", score |-> 3,
      pattern |->
        <<<<lit("case"), ws1, lit("when")>>>>],
     \* /concat\s*\(/gi
     [name |-> "concat-function", score |-> 2,
      pattern |->
        <<<<lit("concat"), ws0, lit("(")>>>>],
     \* /substring\s*\(/gi
     [name |-> "substring-function", score |-> 2,
      pattern |->
        <<<<lit("substring"), ws0, lit("(")>>>>],
     \* /ascii\s*\(/gi
     [name |-> "ascii-function", score |-> 2,
      pattern |->
        <<<<lit("ascii"), ws0, lit("(")>>>>],
     \* /char\s*\(/gi
     [name |-> "char-function", score |-> 2,
      pattern |->
        <<<<lit("char"), ws0, lit("(")>>>>],
     \* /count\s*\(/gi
     [name |-> "count-function", score |-> 2,
      pattern |->
        <<<<lit("count"), ws0, lit("(")>>>>],
     \* /length\s*\(/gi
     [name |-> "length-function", score |-> 2,
      pattern |->
        <<<<lit("length"), ws0, lit("(")>>>>],
     \* /select\s+\*/gi
     [name |-> "select-asterisk", score |-> 2,
      pattern |->
        <<<<lit("select"), ws1, lit("*")>>>>],
     \* /insert\s+into/gi
     [name |-> "insert-into", score |-> 3,
      pattern |->
        <<<<lit("insert"), ws1, lit("into")>>>>],
     \* /update\s+.*\s+set/gi
     [name |-> "update-set", score |-> 3,
      pattern |->
        <<<<lit("update"), ws1, rep(LineEnd, TRUE, 0, -1, FALSE), ws1,
           lit("set")>>>>],
     \* /order\s+by/gi
     [name |-> "order-by", score |-> 2,
      pattern |->
        <<<<lit("order"), ws1, lit("by")>>>>],
     \* /group\s+by/gi
     [name |-> "group-by", score |-> 2,
      pattern |->
        <<<<lit("group"), ws1, lit("by")>>>>],
     \* /having\s+/gi
     [name |-> "having-clause", score |-> 2,
      pattern |->
        <<<<lit("having"), ws1>>>>],
     \* /limit\s+\d+.*offset/gi
     [name |-> "limit-offset", score |-> 2,
      pattern |->
        <<<<lit("limit"), ws1, rep(Digit, FALSE, 1, -1, FALSE),
           rep(LineEnd, TRUE, 0, -1, FALSE), lit("offset")>>>>],
     \* /like\s+['"]%/gi
     [name |-> "like-operator", score |-> 2,
      pattern |->
        <<<<lit("like"), ws1, one({"\"", "'"}), lit("%")>>>>],
     \* /in\s*\(/gi
     [name |-> "in-operator", score |-> 2,
      pattern |->
        <<<<lit("in"), ws0, lit("(")>>>>],
     \* /between\s+/gi
     [name |-> "between-operator", score |-> 2,
      pattern |->
        <<<<lit("between"), ws1>>>>],
     \* /\(\s*select\s+/gi
     [name |-> "subquery-select", score |-> 3,
      pattern |->
        <<<<lit("("), ws0, lit("select"), ws1>>>>],
     \* /exists\s*\(/gi
     [name |-> "exists-subquery", score |-> 2,
      pattern |->
        <<<<lit("exists"), ws0, lit("(")>>>>],
     \* /admin'--/gi
     [name |-> "admin-bypass", score |-> 3,
      pattern |->
        <<<<lit("admin'--")>>>>],
     \* /or\s+true/gi
     [name |-> "or-true", score |-> 3,
      pattern |->
        <<<<lit("or"), ws1, lit("true")>>>>],
     \* /or\s+false/gi
     [name |-> "or-false", score |-> 3,
      pattern |->
        <<<<lit("or"), ws1, lit("false")>>>>]
  >>

createDefaultBuiltInRules ==
  <<
     \* /<script[^>]*>.*?<\/script>/gi
     [id |-> "xss-script-tag", score |-> 3,
      pattern |->
        <<<<lit("<script"), rep({">"}, TRUE, 0, -1, FALSE), lit(">"),
           rep(LineEnd, TRUE, 0, -1, TRUE), lit("</script>")>>>>],
     \* /javascript:/gi
     [id |-> "xss-javascript-url", score |-> 2,
      pattern |->
        <<<<lit("javascript:")>>>>],
     \* /on\w+\s*=/gi
     [id |-> "xss-event-handler", score |-> 2,
      pattern |->
        <<<<lit("on"), rep(Word, FALSE, 1, -1, FALSE), ws0, lit("=")>>>>],
     \* /union\s+select/gi
     [id |-> "sqli-union", score |-> 4,
      pattern |->
        <<<<lit("union"), ws1, lit("select")>>>>],
     \* /or\s+1\s*=\s*1/gi
     [id |-> "sqli-or-1-1", score |-> 3,
      pattern |->
        <<<<lit("or"), ws1, lit("1"), ws0, lit("="), ws0, lit("1")>>>>],
     \* /drop\s+table/gi
     [id |-> "sqli-drop-table", score |-> 5,
      pattern |->
        <<<<lit("drop"), ws1, lit("table")>>>>],
     \* /--\s*$/gm
     [id |-> "sqli-comment", score |-> 2,
      pattern |->
        <<<<lit("--"), ws0, end>>>>],
     \* /\$where|\$ne|\$gt|\$lt|\$regex/gi
     [id |-> "nosqli-operator", score |-> 3,
      pattern |->
        <<<<lit("$where")>>,
         <<lit("$ne")>>,
         <<lit("$gt")>>,
         <<lit("$lt")>>,
         <<lit("$regex")>>>>],
     \* /\.\.\/|\.\.\\|\.\.%2f|\.\.%5c/gi
     [id |-> "path-traversal", score |-> 4,
      pattern |->
        <<<<lit("../")>>,
         <<lit("..\\")>>,
         <<lit("..%2f")>>,
         <<lit("..%5c")>>>>],
     \* /[;&|BACKQUOTE$(){}[\]\\]/gi  (no TLA+ string holds a backquote, and
     \* no text scanned here has one)
     [id |-> "cmd-injection", score |-> 2,
      pattern |->
        <<<<one({"$", "&", "(", ")", ";", "[", "\\", "]", "{", "|", "}"})>>>>]
  >>

(* new XSSModule(config), new SQLiModule(config): every pattern is a fresh *)
(* RegExp literal with lastIndex 0; no request has been scanned.           *)
freshCursors(patterns) == [p \in 1..Len(patterns) |-> 0]

IdleScan ==
  /\ cursors = [xss  |-> freshCursors(xssPatterns),
                sqli |-> freshCursors(sqliPatterns)]
  /\ scanned = <<>>

-----------------------------------------------------------------------------
(* the category index is not followed *)
IdleCat ==
  /\ ruleCategory = <<>>
  /\ ruleCategories = <<>>

IdleExt ==
  IdleLrn /\ IdleSc /\ IdleSk /\ IdleSt /\ IdlePm /\ IdleId /\ IdleScan
    /\ IdleCat

NextMW ==
  \/ \E moduleScore \in 0..MaxModuleScore, anomalyScore \in 0..MaxAnomalyScore,
        matched \in PayloadMatches, throwsAt \in ThrowPoints,
        rollover \in BOOLEAN :
       Request(moduleScore, anomalyScore, matched, throwsAt, rollover)
  \/ FireTimer
  \/ AdminStartLearning
  \/ AdminStopLearning
  \/ AdvanceClock
  \/ HourTick

Init == IdleClock /\ InitMW /\ IdleRE /\ IdleRM /\ IdleRL /\ IdleMod /\ IdleExt

Spec == Init /\ [][NextMW]_vars

-----------------------------------------------------------------------------
(* RuleEngine on its own: evaluate on bounded records and rule sets *)

CustomScores == (0 - MaxCustomScore)..MaxCustomScore

(* ruleEngine.evaluate(analysis) on a record built as analyzeRequest       *)
(* builds it.  reInput and decision hold the latest call.                  *)
evaluateRequest(moduleScore, anomalyScore, matched) ==
  /\ reInput' = << analyzeRequest(moduleScore, anomalyScore, matched) >>
  /\ decision' = << evaluate(analyzeRequest(moduleScore, anomalyScore, matched),
                             rules, threshold) >>

Evaluate(moduleScore, anomalyScore, matched) ==
  /\ evaluateRequest(moduleScore, anomalyScore, matched)
  /\ UNCHANGED <<now, alive, mwVars, modVars, extVars, rmVars, rlVars>>

(* RuleEngine.addRule: the rule is appended as given; its score is not     *)
(* checked, neither here nor in RuleManager.validateRule.                  *)
AddRule(id, score) ==
  /\ id \notin DOMAIN rules
  /\ rules' = [r \in DOMAIN rules \cup {id} |->
                 IF r = id THEN score ELSE rules[r]]
  /\ UNCHANGED <<now, alive, config, threshold, isLearningMode, isLearning,
                 currentPhase, learningData, timers, stats, hourKey,
                 errorListener, last>>
  /\ UNCHANGED <<reVars, rmVars, modVars, extVars, rlVars>>

(* RuleEngine.removeRule *)
RemoveRule(id) ==
  /\ id \in DOMAIN rules
  /\ rules' = [r \in DOMAIN rules \ {id} |-> rules[r]]
  /\ UNCHANGED <<now, alive, config, threshold, isLearningMode, isLearning,
                 currentPhase, learningData, timers, stats, hourKey,
                 errorListener, last>>
  /\ UNCHANGED <<reVars, rmVars, modVars, extVars, rlVars>>

(* new RuleEngine(config): threshold from the configuration, the built-in  *)
(* rules loaded.                                                           *)
InitRE ==
  /\ config \in [adaptiveLearning : {FALSE}, dryRun : {FALSE},
                 threshold : 0..MaxThreshold, learningPeriod : {5}]
  /\ threshold = engineThreshold(config)
  /\ rules = BuiltinScore
  /\ isLearning = FALSE
  /\ currentPhase = "protecting"
  /\ timers = <<>>
  /\ isLearningMode = FALSE
  /\ learningData = [requests |-> 0, threatAnalysis |-> FALSE]
  /\ stats = [totalRequests |-> 0, blockedRequests |-> 0,
              threatsDetected |-> 0, learningModeRequests |-> 0,
              hourlyStats |-> {}]
  /\ hourKey = 0
  /\ errorListener = FALSE
  /\ last = NoRequest
  /\ reInput = <<>>
  /\ decision = <<>>

NextRE ==
  \/ \E moduleScore \in 0..MaxModuleScore, anomalyScore \in 0..MaxAnomalyScore,
        matched \in SUBSET RuleIds :
       Evaluate(moduleScore, anomalyScore, matched)
  \/ \E score \in CustomScores : AddRule("custom", score)
  \/ \E id \in RuleIds : RemoveRule(id)

InitRuleEngine == IdleClock /\ InitRE /\ IdleRM /\ IdleRL /\ IdleMod /\ IdleExt

SpecRuleEngine == InitRuleEngine /\ [][NextRE]_vars

-----------------------------------------------------------------------------
(* RateLimitModule *)

IPs == {"1.2.3.4", "5.6.7.8"}

DefaultWindowMs == 900000         \* rateLimit.windowMs || 15 * 60 * 1000
DefaultMax == 100                 \* rateLimit.max || 100
DefaultBlockDuration == 86400000  \* ipBlocking.blockDuration || 24 h
DefaultMaxViolations == 5         \* ipBlocking.maxViolations || 5

(* RateLimitModule.constructor: the fields taken from the configuration.   *)
rateLimitConstructor(cfg) ==
  [enabled       |-> cfg.rateLimit.enabled,
   windowMs      |-> OrDefault(cfg.rateLimit.windowMs, DefaultWindowMs),
   max           |-> OrDefault(cfg.rateLimit.max, DefaultMax),
   ipBlocking    |-> cfg.ipBlocking.enabled,
   blockDuration |-> OrDefault(cfg.ipBlocking.blockDuration,
                               DefaultBlockDuration),
   maxViolations |-> OrDefault(cfg.ipBlocking.maxViolations,
                               DefaultMaxViolations)]

drop(map, key) == [k \in DOMAIN map \ {key} |-> map[k]]
put(map, key, value) ==
  [k \in DOMAIN map \cup {key} |-> IF k = key THEN value ELSE map[k]]

(* isIPBlocked: the value it returns ...                                   *)
blockExpired_AtDeadline(record, t) == t >= record.blockedUntil
blockExpired(record, t) == t > record.blockedUntil
isIPBlocked(ip, t) ==
  ip \in DOMAIN blockedIPs /\ ~blockExpired(blockedIPs[ip], t)
(* ... and the block table it leaves: an expired entry is deleted.         *)
blockedAfterCheck(ip, t) ==
  IF ip \in DOMAIN blockedIPs /\ blockExpired(blockedIPs[ip], t)
  THEN drop(blockedIPs, ip) ELSE blockedIPs

(* analyze: now - requestRecord.firstRequest > this.windowMs *)
windowExpired(record, t) == t - record.firstRequest > rl.windowMs

(* analyze: requestRecord.count > this.max *)
limitExceeded_AtMax(count) == count >= rl.max
limitExceeded(count) == count > rl.max

(* analyze: this.ipBlocking.enabled && violations >= this.maxViolations *)
shouldBlock_Above(violations) == rl.ipBlocking /\ violations > rl.maxViolations
shouldBlock(violations) == rl.ipBlocking /\ violations >= rl.maxViolations

(* blockIP: the entry it stores ...                                        *)
blockRecord_NoDuration(t, reason) ==
  [blockedUntil |-> t, reason |-> reason, blockedAt |-> t]
blockRecord(t, reason) ==
  [blockedUntil |-> t + rl.blockDuration, reason |-> reason, blockedAt |-> t]
(* ... and the rate table it leaves: the IP's record is deleted.           *)
requestsAfterBlock_Kept(ip) == requests
requestsAfterBlock(ip) == drop(requests, ip)

(* analyze: the record after "get or create", the window reset and the     *)
(* count++ and violations++ steps.                                         *)
countedRecord(ip, t) ==
  LET got   == IF ip \in DOMAIN requests THEN requests[ip]
               ELSE [count |-> 0, firstRequest |-> t, violations |-> 0]
      fresh == IF windowExpired(got, t)
               THEN [count |-> 0, firstRequest |-> t, violations |-> 0]
               ELSE got
      count == fresh.count + 1
  IN  [fresh EXCEPT !.count = count,
                    !.violations = IF limitExceeded(count) THEN @ + 1 ELSE @]

(* The observer's own account of an IP's windows: the calls counted in the *)
(* current window, the breaches in it, and the breaches in the window      *)
(* before it.  It is closed when the IP's record is deleted by a block or  *)
(* a reset.                                                                *)
NoWindow == [open |-> FALSE, start |-> 0, k |-> 0, breaches |-> 0, prev |-> 0]

observe(w, t, breach) ==
  LET cur == IF w.open /\ ~(t - w.start > rl.windowMs) THEN w
             ELSE [open |-> TRUE, start |-> t, k |-> 0, breaches |-> 0,
                   prev |-> w.breaches]
  IN  [cur EXCEPT !.k = @ + 1,
                  !.breaches = IF breach THEN @ + 1 ELSE @]

ViolationsReason == "Rate limit violations exceeded"

NoResult ==
  [called |-> FALSE, ip |-> "none", at |-> 0, checked |-> FALSE,
   hadEntry |-> FALSE, untilBefore |-> 0, reasonBefore |-> "none",
   isBlocked |-> FALSE,
   pattern |-> "null", score |-> 0, k |-> 0, breaches |-> 0, prev |-> 0,
   countAfter |-> 0, violationsAfter |-> 0, recordAfter |-> FALSE,
   entryAfter |-> FALSE, untilAfter |-> 0]

(* RateLimitModule.analyze(analysis) for a request from ip: the tables it  *)
(* leaves and the result it returns.                                       *)
analyze(ip) ==
     LET blocked == isIPBlocked(ip, now)
         table   == blockedAfterCheck(ip, now)
         rec     == countedRecord(ip, now)
         breach  == limitExceeded(rec.count)
         block   == breach /\ shouldBlock(rec.violations)
         w       == observe(window[ip], now, breach)
         facts   == [NoResult EXCEPT
                       !.called = TRUE, !.ip = ip, !.at = now,
                       !.hadEntry = (ip \in DOMAIN blockedIPs),
                       !.untilBefore = IF ip \in DOMAIN blockedIPs
                                       THEN blockedIPs[ip].blockedUntil ELSE 0,
                       !.reasonBefore = IF ip \in DOMAIN blockedIPs
                                        THEN blockedIPs[ip].reason ELSE "none"]
         after(f) == [f EXCEPT
                       !.recordAfter = (ip \in DOMAIN requests'),
                       !.countAfter = IF ip \in DOMAIN requests'
                                      THEN requests'[ip].count ELSE 0,
                       !.violationsAfter = IF ip \in DOMAIN requests'
                                           THEN requests'[ip].violations ELSE 0,
                       !.entryAfter = (ip \in DOMAIN blockedIPs'),
                       !.untilAfter = IF ip \in DOMAIN blockedIPs'
                                      THEN blockedIPs'[ip].blockedUntil ELSE 0]
     IN
     IF ~rl.enabled
     THEN /\ UNCHANGED <<requests, blockedIPs, window>>
          /\ result' = after(facts)
     ELSE IF blocked
     THEN /\ UNCHANGED <<requests, blockedIPs, window>>
          /\ result' = after([facts EXCEPT !.checked = TRUE,
                                !.isBlocked = TRUE,
                                !.pattern = "ip-blocked", !.score = 10])
     ELSE IF block
     THEN \* blockIP(ip, 'Rate limit violations exceeded')
          /\ blockedIPs' = put(table, ip, blockRecord(now, ViolationsReason))
          /\ requests' = requestsAfterBlock(ip)
          /\ window' = [window EXCEPT ![ip] = NoWindow]
          /\ result' = after([facts EXCEPT !.checked = TRUE,
                                !.pattern = "ip-blocked-violations",
                                !.score = 10, !.k = w.k,
                                !.breaches = w.breaches, !.prev = w.prev])
     ELSE /\ blockedIPs' = table
          /\ requests' = put(requests, ip, rec)
          /\ window' = [window EXCEPT ![ip] = w]
          /\ result' = after([facts EXCEPT !.checked = TRUE,
                                !.pattern = IF breach THEN "rate-limit-exceeded"
                                            ELSE "null",
                                !.score = IF breach THEN 5 ELSE 0,
                                !.k = w.k, !.breaches = w.breaches,
                                !.prev = w.prev])

(* A request from ip reaches the module on its own. *)
Analyze(ip) ==
  /\ ip \in DOMAIN requests => requests[ip].count < MaxCount
  /\ analyze(ip)
  /\ UNCHANGED <<now, alive, rl, destroyed, mwVars, modVars, extVars, reVars, rmVars>>

(* RateLimitModule.blockIP(ip, reason), called by hand. *)
BlockIP(ip) ==
  /\ blockedIPs' = put(blockedIPs, ip, blockRecord(now, "Manual block"))
  /\ requests' = requestsAfterBlock(ip)
  /\ window' = [window EXCEPT ![ip] = NoWindow]
  /\ UNCHANGED <<now, alive, rl, destroyed, result,
                 mwVars, modVars, extVars, reVars, rmVars>>

(* RateLimitModule.unblockIP(ip) *)
UnblockIP(ip) ==
  /\ ip \in DOMAIN blockedIPs
  /\ blockedIPs' = drop(blockedIPs, ip)
  /\ UNCHANGED <<now, alive, rl, requests, destroyed, result, window,
                 mwVars, modVars, extVars, reVars, rmVars>>

(* cleanup: the rate table and the block table it leaves at time t. *)
sweptRequests(t) ==
  [ip \in {i \in DOMAIN requests : ~windowExpired(requests[i], t)} |->
     requests[ip]]
sweptBlocks_Kept(t) == blockedIPs
sweptBlocks(t) ==
  [ip \in {i \in DOMAIN blockedIPs : ~blockExpired(blockedIPs[i], t)} |->
     blockedIPs[ip]]

(* RateLimitModule.cleanup, run by the interval until destroy clears it.   *)
Cleanup ==
  /\ ~destroyed
  /\ requests' = sweptRequests(now)
  /\ blockedIPs' = sweptBlocks(now)
  /\ UNCHANGED <<now, alive, rl, destroyed, result, window,
                 mwVars, modVars, extVars, reVars, rmVars>>

(* RateLimitModule.reset *)
Reset ==
  /\ requests' = <<>>
  /\ blockedIPs' = <<>>
  /\ window' = [ip \in IPs |-> NoWindow]
  /\ UNCHANGED <<now, alive, rl, destroyed, result,
                 mwVars, modVars, extVars, reVars, rmVars>>

(* RateLimitModule.destroy: clearInterval, then reset. *)
Destroy ==
  /\ ~destroyed
  /\ destroyed' = TRUE
  /\ requests' = <<>>
  /\ blockedIPs' = <<>>
  /\ window' = [ip \in IPs |-> NoWindow]
  /\ UNCHANGED <<now, alive, rl, result, mwVars, modVars, extVars, reVars, rmVars>>

(* Time passes. *)
Tick ==
  /\ now < MaxClock
  /\ now' = now + 1
  /\ UNCHANGED <<alive, mwVars, modVars, extVars, reVars, rmVars, rlVars>>

WindowTicks == 2      \* the configured windowMs, in ticks
BlockTicks == 2       \* the configured blockDuration, in ticks

(* new RateLimitModule(config) *)
InitRL ==
  /\ \E enabled \in BOOLEAN, blocking \in BOOLEAN,
        max \in 1..MaxLimit, maxViolations \in 1..MaxLimit :
       rl = rateLimitConstructor(
              [rateLimit  |-> [enabled |-> enabled, windowMs |-> WindowTicks,
                               max |-> max],
               ipBlocking |-> [enabled |-> blocking,
                               blockDuration |-> BlockTicks,
                               maxViolations |-> maxViolations]])
  /\ requests = <<>>
  /\ blockedIPs = <<>>
  /\ destroyed = FALSE
  /\ result = NoResult
  /\ window = [ip \in IPs |-> NoWindow]

NextRL ==
  \/ \E ip \in IPs : Analyze(ip)
  \/ \E ip \in IPs : BlockIP(ip)
  \/ \E ip \in IPs : UnblockIP(ip)
  \/ Cleanup
  \/ Reset
  \/ Destroy
  \/ Tick

InitRateLimit == IdleClock /\ IdleMW /\ IdleRE /\ IdleRM /\ InitRL /\ IdleMod /\ IdleExt

SpecRateLimit == InitRateLimit /\ [][NextRL]_vars

-----------------------------------------------------------------------------
(* Claims on the middleware and the learner (specification Spec) *)

LearningPhases == {"collecting", "analyzing", "adapting"}

(* C1: while the learner's phase is Collecting, Analyzing or Adapting, no  *)
(* request is answered with 403, whatever its score.                       *)
C1_LearningPhasesNeverBlock ==
  (last.handled /\ last.phase \in LearningPhases) => last.status # "403"

(* C2: with adaptiveLearning on and dryRun off, a request handled in phase *)
(* Protecting whose total score reaches the threshold is answered 403.     *)
C2_BlocksAfterLearning ==
  (/\ last.handled
   /\ config.adaptiveLearning /\ ~config.dryRun
   /\ last.phase = "protecting"
   /\ last.fullScore >= threshold)
  => last.status = "403"

(* C5: when a step of the analysis or the decision throws, an 'error'      *)
(* event is emitted, next is called, no 403 is sent and no exception       *)
(* leaves the middleware, with or without an 'error' listener.             *)
C5_FailOpen ==
  (last.handled /\ last.threw)
  => (last.events.error = 1 /\ last.status = "next" /\ ~last.escaped)

(* C6: in dry-run mode with learning off, a request whose verdict is block *)
(* is passed on, exactly one dry-run threat-detected event is emitted and  *)
(* blockedRequests is not incremented.                                     *)
C6_DryRunPassesOn ==
  (last.handled /\ ~last.learningMode /\ last.dryRun /\ last.verdict = "block")
  => (/\ last.status = "next"
      /\ last.events.dryRun = 1
      /\ stats.blockedRequests = last.blockedBefore)

-----------------------------------------------------------------------------
(* Claims on RuleEngine.evaluate (specification SpecRuleEngine) *)

(* C3: evaluate returns block exactly when the score it returns is at or   *)
(* above the configured threshold, for every configured threshold          *)
(* including 0.                                                            *)
C3_BlockIffScoreReachesThreshold ==
  decision # <<>> =>
    (decision[1].action = "block" <=> decision[1].score >= config.threshold)

(* C4: the returned score is non-negative and equals the scores of the     *)
(* matched flat rules plus the scores the detection modules contributed.   *)
C4_ScoreIsRulesPlusModules ==
  decision # <<>> =>
    /\ decision[1].score >= 0
    /\ decision[1].score =
         SumScores(decision[1].matchedRules, rules) + reInput[1].moduleScore

-----------------------------------------------------------------------------
(* Claims on the rate-limit module (specification SpecRateLimit) *)

(* The latest analyze call reached the rate counter: the module is enabled *)
(* and the IP was not blocked.                                             *)
Counted == result.called /\ result.checked /\ ~result.isBlocked

(* C7 as stated: the k-th request of a window from an unblocked IP yields  *)
(* the rate-limit threat exactly when k > max, nothing for k <= max, and   *)
(* leaves the IP's count at k.                                             *)
C7_RateLimitIffOverMax ==
  Counted =>
    /\ (result.pattern = "rate-limit-exceeded" <=> result.k > rl.max)
    /\ (result.k <= rl.max => result.pattern = "null")
    /\ (result.recordAfter /\ result.countAfter = result.k)

(* C7 amended: the k-th request of a window from an unblocked IP yields a  *)
(* rate-limit result exactly when k > max.  That result is the             *)
(* rate-limit-exceeded threat (score 5) and the count is k, except on the  *)
(* call that brings the violations to maxViolations with IP blocking on:   *)
(* that call yields ip-blocked-violations (score 10) and deletes the       *)
(* record.                                                                 *)
C7_RateLimitIffOverMaxUnlessBlocking ==
  Counted =>
    LET blocks == /\ rl.ipBlocking
                  /\ result.k - rl.max >= rl.maxViolations
    IN  /\ (result.pattern # "null" <=> result.k > rl.max)
        /\ (result.pattern = "ip-blocked-violations" <=>
              (result.k > rl.max /\ blocks))
        /\ (result.pattern = "rate-limit-exceeded" => result.score = 5)
        /\ (result.pattern = "ip-blocked-violations" =>
              (result.score = 10 /\ ~result.recordAfter))
        /\ (result.pattern # "ip-blocked-violations" =>
              (result.recordAfter /\ result.countAfter = result.k))

(* A first request over the limit was answered with rate-limit-exceeded. *)
C7_Witness ==
  /\ Counted
  /\ result.k = rl.max + 1
  /\ result.pattern = "rate-limit-exceeded"

(* C8 as stated: an IP is treated as blocked exactly when the block table  *)
(* holds an entry with blockedUntil > now, and an access after             *)
(* now > blockedUntil removes the entry.                                   *)
C8_BlockedIffUntilAfterNow ==
  (result.called /\ result.checked) =>
    /\ (result.isBlocked <=>
          (result.hadEntry /\ result.untilBefore > result.at))
    /\ ((result.hadEntry /\ result.at > result.untilBefore)
          => ~result.entryAfter)

(* C8 amended: an IP is treated as blocked exactly when the block table    *)
(* holds an entry with blockedUntil >= now (the entry still blocks at the  *)
(* instant blockedUntil), and an access after now > blockedUntil removes   *)
(* the entry.                                                              *)
C8_BlockedIffUntilNotBeforeNow ==
  (result.called /\ result.checked) =>
    /\ (result.isBlocked <=>
          (result.hadEntry /\ result.untilBefore >= result.at))
    /\ ((result.hadEntry /\ result.at > result.untilBefore)
          => ~result.entryAfter)

(* A request arrived at the very instant blockedUntil and was refused. *)
C8_Witness ==
  /\ result.called /\ result.checked
  /\ result.hadEntry /\ result.untilBefore = result.at
  /\ result.isBlocked

(* C9: no IP has an entry in both the rate table and the block table. *)
C9_RateAndBlockTablesDisjoint ==
  DOMAIN requests \cap DOMAIN blockedIPs = {}

(* An IP with a rate record was blocked by hand while another IP is being  *)
(* counted.                                                                *)
C9_Witness ==
  \E a \in IPs, b \in IPs :
    /\ a \in DOMAIN blockedIPs /\ blockedIPs[a].reason = "Manual block"
    /\ result.called /\ result.ip = a /\ result.k >= 1
    /\ b \in DOMAIN requests

(* The configuration of the scenario: max = 2, maxViolations = 2, rate     *)
(* limiting and IP blocking enabled.                                       *)
TwoAndTwo ==
  rl.enabled /\ rl.ipBlocking /\ rl.max = 2 /\ rl.maxViolations = 2

(* C10 as stated: an IP that exceeded the limit once in one window and     *)
(* exceeds it again in the following window is moved to the block table.   *)
C10_BlockedAfterBreachesInTwoWindows ==
  (TwoAndTwo /\ Counted /\ result.prev = 1 /\ result.breaches = 1)
    => result.entryAfter

(* C10 amended: with max = 2 and maxViolations = 2, an IP is moved to the  *)
(* block table by its second breach within one window (the 4th request of  *)
(* the window); a first breach of a window only yields rate-limit-exceeded *)
(* whatever happened in the window before, because the violations are      *)
(* reset with the window.  A request from an IP whose block entry has not  *)
(* expired yields ip-blocked with score 10.                                *)
C10_BlockedAfterTwoBreachesInOneWindow ==
  TwoAndTwo =>
    /\ (Counted /\ result.breaches = 2) =>
         /\ result.pattern = "ip-blocked-violations"
         /\ result.entryAfter /\ ~result.recordAfter
         /\ result.untilAfter = result.at + rl.blockDuration
    /\ (Counted /\ result.breaches = 1) =>
         (result.pattern = "rate-limit-exceeded" /\ ~result.entryAfter)
    /\ (result.called /\ result.hadEntry /\ result.at <= result.untilBefore)
         => (result.pattern = "ip-blocked" /\ result.score = 10)

(* The request after a block for violations was answered with ip-blocked. *)
C10_Witness ==
  /\ TwoAndTwo
  /\ result.called
  /\ result.reasonBefore = ViolationsReason
  /\ result.pattern = "ip-blocked"

(* C11: the call on which an IP's violations reach maxViolations with IP   *)
(* blocking enabled creates a block entry with                             *)
(* blockedUntil = now + blockDuration and deletes the IP's rate record; a  *)
(* request from the IP before the entry expires yields ip-blocked with     *)
(* score 10 and creates no rate record; the first request after expiry is  *)
(* counted as request 1 of a fresh window with 0 violations.               *)
C11_BlockThenRefuseThenFreshWindow ==
  (rl.enabled /\ result.called) =>
    /\ (result.pattern = "ip-blocked-violations" =>
          /\ rl.ipBlocking
          /\ result.breaches >= rl.maxViolations
          /\ result.entryAfter
          /\ result.untilAfter = result.at + rl.blockDuration
          /\ ~result.recordAfter)
    /\ (~result.isBlocked /\ rl.ipBlocking
          /\ result.breaches >= rl.maxViolations =>
          result.pattern = "ip-blocked-violations")
    /\ (result.hadEntry /\ result.at < result.untilBefore =>
          /\ result.pattern = "ip-blocked" /\ result.score = 10
          /\ ~result.recordAfter)
    /\ (result.hadEntry /\ result.at > result.untilBefore =>
          /\ result.pattern = "null"
          /\ result.recordAfter
          /\ result.countAfter = 1 /\ result.violationsAfter = 0
          /\ result.k = 1
          /\ ~result.entryAfter)

(* An IP blocked for its violations came back after the block had expired  *)
(* and was counted afresh.                                                 *)
C11_Witness ==
  /\ rl.enabled /\ result.called
  /\ result.reasonBefore = ViolationsReason
  /\ result.at > result.untilBefore
  /\ result.countAfter = 1

-----------------------------------------------------------------------------
(* The middleware with the rate limiter among its modules (SpecGuard) *)

MaxGuardRequests == 3    \* requests handled by the guarded middleware
GuardThresholds == {2, 12}

(* A request from ip through the middleware: analyzeRequest runs the       *)
(* rate limiter together with the payload modules and adds the score of    *)
(* its result to the running score.                                        *)
GuardedRequest(ip, payloadScore, anomalyScore, matched, rollover) ==
  /\ stats.totalRequests < MaxGuardRequests
  /\ analyze(ip)
  /\ middleware(payloadScore + result'.score, anomalyScore, matched, "none",
                rollover)
  /\ UNCHANGED <<rl, destroyed, reVars, rmVars, modVars, extVars>>

(* createWAF with modules: [..., 'ratelimit'], rate limiting enabled. *)
InitGuard ==
  /\ IdleClock
  /\ config \in [adaptiveLearning : BOOLEAN, dryRun : BOOLEAN,
                 threshold : GuardThresholds, learningPeriod : {5}]
  /\ threshold = engineThreshold(config)
  /\ rules = BuiltinScore
  /\ isLearning = config.adaptiveLearning
  /\ currentPhase = IF isLearning THEN "collecting" ELSE "protecting"
  /\ timers = IF isLearning
              THEN setupPhaseTransitions(config.learningPeriod, 0) ELSE <<>>
  /\ isLearningMode = (config.adaptiveLearning /\ isLearning)
  /\ learningData = [requests |-> 0, threatAnalysis |-> FALSE]
  /\ stats = [totalRequests |-> 0, blockedRequests |-> 0,
              threatsDetected |-> 0, learningModeRequests |-> 0,
              hourlyStats |-> {}]
  /\ hourKey = 0
  /\ errorListener = TRUE
  /\ last = NoRequest
  /\ IdleRE
  /\ IdleRM
  /\ IdleMod /\ IdleExt
  /\ \E maxViolations \in 1..MaxLimit :
       rl = rateLimitConstructor(
              [rateLimit  |-> [enabled |-> TRUE, windowMs |-> WindowTicks,
                               max |-> 1],
               ipBlocking |-> [enabled |-> TRUE,
                               blockDuration |-> BlockTicks,
                               maxViolations |-> maxViolations]])
  /\ requests = <<>>
  /\ blockedIPs = <<>>
  /\ destroyed = FALSE
  /\ result = NoResult
  /\ window = [ip \in IPs |-> NoWindow]

NextGuard ==
  \/ \E payloadScore \in 0..MaxModuleScore, matched \in PayloadMatches,
        rollover \in BOOLEAN :
       GuardedRequest("1.2.3.4", payloadScore, 0, matched, rollover)
  \/ FireTimer
  \/ AdvanceClock

SpecGuard == InitGuard /\ [][NextGuard]_vars

(* C12: in phase Protecting with dryRun off and the rate limiter enabled,  *)
(* a request from an IP that is in the block table is answered with 403,   *)
(* whatever its payload and whatever the configured threshold.             *)
C12_BlockedIPRefused ==
  (/\ last.handled /\ result.called
   /\ last.phase = "protecting" /\ ~config.dryRun
   /\ rl.enabled /\ result.isBlocked)
  => last.status = "403"

-----------------------------------------------------------------------------
(* The rate limiter with its sweeper on the clock (SpecSweep) *)

SweepTicks == 2       \* setInterval(cleanup, 60000), in ticks

(* Time passes; the interval timer set in the constructor at tick 0 runs   *)
(* cleanup at every multiple of the sweep interval until destroy clears    *)
(* it.                                                                     *)
TickSweep ==
  /\ now < MaxClock
  /\ now' = now + 1
  /\ IF ~destroyed /\ (now + 1) % SweepTicks = 0
     THEN /\ requests' = sweptRequests(now + 1)
          /\ blockedIPs' = sweptBlocks(now + 1)
     ELSE UNCHANGED <<requests, blockedIPs>>
  /\ UNCHANGED <<alive, rl, destroyed, result, window,
                 mwVars, modVars, extVars, reVars, rmVars>>

NextSweep ==
  \/ \E ip \in IPs : Analyze(ip)
  \/ TickSweep
  \/ Destroy

SpecSweep == InitRateLimit /\ [][NextSweep]_vars /\ WF_vars(TickSweep)

(* C13: while the module is not destroyed, a block entry and a rate record *)
(* are gone at the latest one sweep interval after they expired, whether   *)
(* or not the IP sends another request, and a sweep removes no block entry *)
(* and no rate record that has not expired.  An entry that expires while   *)
(* the clock still has a sweep ahead is eventually removed.                *)
C13_SweeperEvictsExpiredOnly ==
  /\ [](~destroyed =>
          /\ \A ip \in DOMAIN blockedIPs :
               now - blockedIPs[ip].blockedUntil < SweepTicks
          /\ \A ip \in DOMAIN requests :
               now - (requests[ip].firstRequest + rl.windowMs) < SweepTicks)
  /\ [][now' # now =>
          /\ \A ip \in DOMAIN blockedIPs \ DOMAIN blockedIPs' :
               now' > blockedIPs[ip].blockedUntil
          /\ \A ip \in DOMAIN requests \ DOMAIN requests' :
               now' - requests[ip].firstRequest > rl.windowMs]_vars
  /\ \A ip \in IPs :
       (/\ ~destroyed /\ ip \in DOMAIN blockedIPs
        /\ blockedIPs[ip].blockedUntil + SweepTicks <= MaxClock)
         ~> (ip \notin DOMAIN blockedIPs)

(* The latest request left a block entry for its IP; that entry has        *)
(* expired and is gone although no request came after it.                  *)
C13_Witness ==
  /\ ~destroyed
  /\ result.called /\ result.entryAfter
  /\ result.untilAfter < now
  /\ result.ip \notin DOMAIN blockedIPs

-----------------------------------------------------------------------------
(* Claims on the learner's phases (specification Spec) *)

PhaseRank ==
  [p \in Phases |-> CASE p = "collecting" -> 0
                      [] p = "analyzing"  -> 1
                      [] p = "adapting"   -> 2
                      [] p = "protecting" -> 3]

(* C14: the learner's phase never moves backwards in the order Collecting, *)
(* Analyzing, Adapting, Protecting, under any timer firings and admin      *)
(* start-learning and stop-learning calls; once Protecting it stays        *)
(* Protecting.                                                             *)
C14_PhaseOnlyAdvances ==
  [][PhaseRank[currentPhase'] >= PhaseRank[currentPhase]]_vars

-----------------------------------------------------------------------------
(* RuleManager *)

MaxRuleScore == 2        \* largest rule score handed to the manager
MaxBatch == 2            \* entries of one loaded batch

(* A pattern is a RegExp object or a string still to be compiled. *)
RegExpOf(src) == [kind |-> "regexp", src |-> src]
StringOf(src) == [kind |-> "string", src |-> src]

(* new RegExp(src, flags) throws a SyntaxError on a malformed source. *)
compiles(src) == src # "("

(* "Compile regex pattern": only a string is compiled. *)
patternThrows_Never(pattern) == FALSE
patternThrows(pattern) == pattern.kind = "string" /\ ~compiles(pattern.src)
compilePattern(pattern) ==
  IF pattern.kind = "string" THEN RegExpOf(pattern.src) ELSE pattern

(* validateRule: the five required fields are own properties of the rule;  *)
(* their values are not looked at.                                         *)
validateRule(rule) == rule.hasFields

(* The entry addRules and addCustomRule store for a rule. *)
storedRule(rule, source) ==
  [score   |-> rule.score,
   pattern |-> compilePattern(rule.pattern),
   enabled |-> rule.enabled,
   source  |-> source]

(* addRules(rules, source): an entry that fails validateRule or whose       *)
(* pattern string does not compile is skipped with a warning.              *)
RECURSIVE addRules(_, _, _)
addRules(map, batch, source) ==
  IF batch = <<>> THEN map
  ELSE LET rule == Head(batch)
           kept == IF ~validateRule(rule) \/ patternThrows(rule.pattern)
                   THEN map
                   ELSE put(map, rule.id, storedRule(rule, source))
       IN  addRules(kept, Tail(batch), source)

(* createDefaultBuiltInRules: the default rules, with RegExp literals. *)
defaultRules ==
  << [id |-> "xss-script-tag", hasFields |-> TRUE,
      score |-> BuiltinScore["xss-script-tag"],
      pattern |-> RegExpOf("<script"), enabled |-> TRUE],
     [id |-> "sqli-union", hasFields |-> TRUE,
      score |-> BuiltinScore["sqli-union"],
      pattern |-> RegExpOf("union"), enabled |-> TRUE] >>

(* addCustomRule(rule): throws on a missing field or a pattern string that *)
(* does not compile, otherwise stores the rule as source 'custom'.         *)
addCustomRule(rule) ==
  IF ~validateRule(rule) \/ patternThrows(rule.pattern)
  THEN [map |-> ruleMap, threw |-> TRUE]
  ELSE [map |-> put(ruleMap, rule.id, storedRule(rule, "custom")),
        threw |-> FALSE]

(* Object.assign(rule, updates): updates gives each field as <<>> (absent) *)
(* or <<value>>.                                                           *)
assign(rule, updates) ==
  [rule EXCEPT
     !.score   = IF updates.score = <<>> THEN @ ELSE updates.score[1],
     !.enabled = IF updates.enabled = <<>> THEN @ ELSE updates.enabled[1],
     !.pattern = IF updates.pattern = <<>> THEN @ ELSE updates.pattern[1]]

(* updateCustomRule(id, updates): the updates are assigned to the stored   *)
(* rule first; the new pattern is compiled after that, when it is truthy   *)
(* (not the empty string), and a compile failure throws with the           *)
(* assignment already made.                                                *)
truthy(pattern) == ~(pattern.kind = "string" /\ pattern.src = "")

updateCustomRule(id, updates) ==
  IF id \notin DOMAIN ruleMap \/ ruleMap[id].source # "custom"
  THEN [map |-> ruleMap, threw |-> TRUE]
  ELSE LET assigned == assign(ruleMap[id], updates)
       IN  IF updates.pattern = <<>> \/ ~truthy(updates.pattern[1])
           THEN [map |-> put(ruleMap, id, assigned), threw |-> FALSE]
           ELSE IF patternThrows(updates.pattern[1])
           THEN [map |-> put(ruleMap, id, assigned), threw |-> TRUE]
           ELSE [map |-> put(ruleMap, id,
                             [assigned EXCEPT
                                !.pattern = compilePattern(updates.pattern[1])]),
                 threw |-> FALSE]

(* deleteCustomRule(id) *)
deleteCustomRule_Kept(id) ==
  IF id \notin DOMAIN ruleMap \/ ruleMap[id].source # "custom"
  THEN [map |-> ruleMap, threw |-> TRUE]
  ELSE [map |-> ruleMap, threw |-> FALSE]
deleteCustomRule(id) ==
  IF id \notin DOMAIN ruleMap \/ ruleMap[id].source # "custom"
  THEN [map |-> ruleMap, threw |-> TRUE]
  ELSE [map |-> drop(ruleMap, id), threw |-> FALSE]

(* toggleRule(id, enabled) *)
toggleRule(id, enabled) ==
  IF id \notin DOMAIN ruleMap
  THEN [map |-> ruleMap, threw |-> TRUE]
  ELSE [map |-> put(ruleMap, id, [ruleMap[id] EXCEPT !.enabled = enabled]),
        threw |-> FALSE]

(* getRule(id): the rule, or nothing. *)
getRule(id) == IF id \in DOMAIN ruleMap THEN <<ruleMap[id]>> ELSE <<>>

(* getEnabledRules, as the set of their ids. *)
getEnabledRules == {id \in DOMAIN ruleMap : ruleMap[id].enabled}

(* The inputs the manager is driven with. *)
RuleScores == {0 - 1, MaxRuleScore}
PatternInputs == {StringOf("<script"), StringOf("("), RegExpOf("<script")}
NoUpdates == [score |-> <<>>, enabled |-> <<>>, pattern |-> <<>>]
Updates ==
  [score   : {<<>>} \cup {<<v>> : v \in RuleScores},
   enabled : {<<>>, <<FALSE>>},
   pattern : {<<>>, <<StringOf("union")>>, <<StringOf("(")>>,
              <<StringOf("")>>}]
RuleInputs(ids) ==
  [id : ids, hasFields : BOOLEAN, score : RuleScores,
   pattern : PatternInputs, enabled : BOOLEAN]
CustomIds == {"custom"}
BatchId(i) ==
  CASE i = 1 -> "imported-1" [] i = 2 -> "imported-2"
    [] i = 3 -> "imported-3" [] OTHER -> "imported-4"
BatchEntries(i) ==
  {[id |-> BatchId(i), hasFields |-> f, score |-> 1, pattern |-> p,
    enabled |-> TRUE] :
     f \in BOOLEAN, p \in {StringOf("<script"), StringOf("(")}}
     \ {[id |-> BatchId(i), hasFields |-> FALSE, score |-> 1,
          pattern |-> StringOf("("), enabled |-> TRUE]}
Batches ==
  UNION {{b \in [1..n -> UNION {BatchEntries(i) : i \in 1..n}] :
            \A i \in 1..n : b[i] \in BatchEntries(i)} : n \in 1..MaxBatch}
ManagerIds == DOMAIN BuiltinScore \cup CustomIds

NoOperation ==
  [op |-> "none", id |-> "none", threw |-> FALSE,
   updates |-> NoUpdates, batch |-> <<>>, before |-> {},
   enabledThen |-> <<>>]

(* What an operation leaves in rmLast. *)
operation(op, id, outcome) ==
  [NoOperation EXCEPT !.op = op, !.id = id, !.threw = outcome.threw]

AddCustomRule(rule) ==
  /\ ruleMap' = addCustomRule(rule).map
  /\ rmLast' = operation("add", rule.id, addCustomRule(rule))
  /\ UNCHANGED <<now, alive, mwVars, modVars, extVars, reVars, rlVars>>

UpdateCustomRule(id, updates) ==
  /\ ruleMap' = updateCustomRule(id, updates).map
  /\ rmLast' = [operation("update", id, updateCustomRule(id, updates))
                  EXCEPT !.updates = updates]
  /\ UNCHANGED <<now, alive, mwVars, modVars, extVars, reVars, rlVars>>

DeleteCustomRule(id) ==
  /\ ruleMap' = deleteCustomRule(id).map
  /\ rmLast' = operation("delete", id, deleteCustomRule(id))
  /\ UNCHANGED <<now, alive, mwVars, modVars, extVars, reVars, rlVars>>

ToggleRule(id, enabled) ==
  /\ ruleMap' = toggleRule(id, enabled).map
  /\ rmLast' = operation("toggle", id, toggleRule(id, enabled))
  /\ UNCHANGED <<now, alive, mwVars, modVars, extVars, reVars, rlVars>>

(* importRules(file, source): addRules on the parsed batch. *)
ImportRules(batch) ==
  /\ ruleMap' = addRules(ruleMap, batch, "imported")
  /\ rmLast' = [operation("import", "none", [threw |-> FALSE])
                  EXCEPT !.batch = batch, !.before = DOMAIN ruleMap]
  /\ UNCHANGED <<now, alive, mwVars, modVars, extVars, reVars, rlVars>>

(* new RuleManager(config): the default built-in rules are loaded. *)
InitRM ==
  /\ ruleMap = addRules(<<>>, defaultRules, "builtin")
  /\ rmLast = NoOperation

NextRM ==
  \/ \E rule \in RuleInputs(CustomIds) : AddCustomRule(rule)
  \/ \E id \in ManagerIds, updates \in Updates : UpdateCustomRule(id, updates)
  \/ \E id \in ManagerIds : DeleteCustomRule(id)
  \/ \E id \in ManagerIds, enabled \in BOOLEAN : ToggleRule(id, enabled)
  \/ \E batch \in Batches : ImportRules(batch)

InitRuleManager ==
  IdleClock /\ IdleMW /\ IdleRE /\ InitRM /\ IdleRL /\ IdleMod /\ IdleExt

SpecRuleManager == InitRuleManager /\ [][NextRM]_vars

(* C16: every rule that is enabled in the Rule Manager has a compiled      *)
(* regular-expression pattern and a score of at least 0.                   *)
C16_EnabledRulesCompiledNonNegative ==
  \A id \in getEnabledRules :
    /\ ruleMap[id].pattern.kind = "regexp"
    /\ ruleMap[id].score >= 0

-----------------------------------------------------------------------------
(* Claims on the Rule Manager (specification SpecRuleManager) *)

(* The stored rule shows the fields the updates gave. *)
reflects(rule, updates) ==
  /\ updates.score # <<>> => rule.score = updates.score[1]
  /\ updates.enabled # <<>> => rule.enabled = updates.enabled[1]
  /\ updates.pattern # <<>> => rule.pattern.src = updates.pattern[1].src

(* C17: right after a rule was added, deleting its id succeeds and leaves  *)
(* getRule(id) with no rule; updating it succeeds unless the new pattern   *)
(* does not compile, and getRule(id) then returns a rule whose fields are  *)
(* those of the updates.                                                   *)
C17_AddThenDeleteOrUpdate ==
  [][(rmLast.op = "add" /\ ~rmLast.threw /\ rmLast'.id = rmLast.id) =>
       /\ rmLast'.op = "delete" =>
            (~rmLast'.threw /\ rmLast.id \notin DOMAIN ruleMap')
       /\ rmLast'.op = "update" =>
            /\ rmLast.id \in DOMAIN ruleMap'
            /\ rmLast'.threw <=>
                 (/\ rmLast'.updates.pattern # <<>>
                  /\ patternThrows(rmLast'.updates.pattern[1]))
            /\ ~rmLast'.threw =>
                 reflects(ruleMap'[rmLast.id], rmLast'.updates)]_vars

(* The custom rule was deleted and getRule finds nothing. *)
C17_Witness ==
  /\ rmLast.op = "delete" /\ ~rmLast.threw
  /\ getRule(rmLast.id) = <<>>


(* An entry of a batch is valid: it has the required fields and its        *)
(* pattern string compiles.                                                *)
validEntry(entry) == entry.hasFields /\ compiles(entry.pattern.src)

(* C18: after a batch was loaded, every valid entry of it is in the rule   *)
(* map with its pattern compiled, no invalid entry was added to the map,   *)
(* and the load did not throw.                                             *)
C18_BatchSkipsInvalidOnly ==
  rmLast.op = "import" =>
    /\ ~rmLast.threw
    /\ \A i \in 1..Len(rmLast.batch) :
         LET entry == rmLast.batch[i]
         IN  /\ validEntry(entry) =>
                  /\ entry.id \in DOMAIN ruleMap
                  /\ ruleMap[entry.id].pattern = RegExpOf(entry.pattern.src)
                  /\ ruleMap[entry.id].score = entry.score
                  /\ ruleMap[entry.id].source = "imported"
             /\ (~validEntry(entry) /\ entry.id \notin rmLast.before) =>
                  entry.id \notin DOMAIN ruleMap

(* A batch whose first entry is invalid and whose second is valid was      *)
(* loaded: the second is in the map, the first is not.                     *)
C18_Witness ==
  /\ rmLast.op = "import" /\ Len(rmLast.batch) = 2
  /\ ~validEntry(rmLast.batch[1]) /\ validEntry(rmLast.batch[2])
  /\ rmLast.batch[2].id \in DOMAIN ruleMap
  /\ rmLast.batch[1].id \notin DOMAIN ruleMap

-----------------------------------------------------------------------------
(* The rule engine fed by the Rule Manager (SpecManagedEngine) *)

(* RuleEngine.loadRulesFromManager: a copy of the id and the score of      *)
(* every rule that is enabled when it is called.                           *)
loadRulesFromManager == [id \in getEnabledRules |-> ruleMap[id].score]

(* ruleEngine.evaluate(analysis) on the engine's own list; rmLast notes    *)
(* the rules the manager has enabled at that moment.                       *)
EvaluateManaged(matched) ==
  /\ evaluateRequest(0, 0, matched)
  /\ rmLast' = [operation("evaluate", "none", [threw |-> FALSE])
                  EXCEPT !.enabledThen = loadRulesFromManager]
  /\ UNCHANGED <<now, alive, mwVars, modVars, extVars, ruleMap, rlVars>>

ScoreUpdates == {u \in Updates : u.pattern = <<>>}
ManagedRuleInputs ==
  {r \in RuleInputs(CustomIds) :
     r.hasFields /\ r.pattern = StringOf("<script") /\ r.score >= 0}

(* createWAF: the WAFMiddleware constructor calls setRuleManager once. *)
InitManagedEngine ==
  /\ IdleClock /\ IdleMW /\ IdleRE /\ InitRM /\ IdleRL /\ IdleMod /\ IdleExt
  /\ rules = loadRulesFromManager

NextManaged ==
  \/ \E rule \in ManagedRuleInputs : AddCustomRule(rule)
  \/ \E id \in ManagerIds, updates \in ScoreUpdates :
       UpdateCustomRule(id, updates)
  \/ \E id \in ManagerIds : DeleteCustomRule(id)
  \/ \E id \in ManagerIds, enabled \in BOOLEAN : ToggleRule(id, enabled)
  \/ \E matched \in SUBSET ManagerIds : EvaluateManaged(matched)

SpecManagedEngine == InitManagedEngine /\ [][NextManaged]_vars

(* C15: an evaluation uses exactly the rules that are enabled in the Rule  *)
(* Manager at that moment: the matched rules are the enabled rules whose   *)
(* pattern matches, and the score is the incoming score plus their         *)
(* scores; a disabled or deleted rule adds nothing and an added one does.  *)
C15_EvaluationUsesEnabledRules ==
  rmLast.op = "evaluate" =>
    LET expected == DOMAIN rmLast.enabledThen \cap reInput[1].matched
    IN  /\ decision[1].matchedRules = expected
        /\ decision[1].score =
             reInput[1].score + SumScores(expected, rmLast.enabledThen)

-----------------------------------------------------------------------------
(* XSSModule / SQLiModule: one pattern with the g flag (SpecModules) *)

MaxTextLen == 2          \* longest search text, in characters
MaxTexts == 2            \* search texts of one request

PatternScore == 3        \* { name: 'script-tag', pattern: /.../gi, score: 3 }
CombinationScore == 4    \* checkCombinations: 'script-suspicious-content'

(* A search text, as the pattern sees it: its length and the one place,    *)
(* from index match[1] up to index match[2], where the pattern matches.    *)
SearchTexts ==
  {t \in [len : 1..MaxTextLen,
          match : {<<>>} \cup ((0..MaxTextLen) \X (0..MaxTextLen))] :
     t.match # <<>> => (t.match[1] < t.match[2] /\ t.match[2] <= t.len)}

(* extractSearchTexts: the path, then query values, body, header values    *)
(* and cookie values that are strings.                                     *)
Surfaces ==
  UNION {{s \in [1..n -> SearchTexts] : TRUE} : n \in 1..MaxTexts}

(* The pattern matches somewhere in the text. *)
matches(text) == text.match # <<>>

(* RegExp.prototype.test on a global RegExp: the search starts at          *)
(* lastIndex; a match leaves lastIndex at its end, a failure leaves 0.     *)
test(text, index) ==
  LET found == matches(text) /\ text.match[1] >= index
  IN  [found |-> found, lastIndex |-> IF found THEN text.match[2] ELSE 0]

(* analyze: searchTexts.forEach(text => pattern.pattern.test(text) ...)    *)
(* for one pattern: the threats pushed, the score added and the cursor the *)
(* RegExp is left with.                                                    *)
RECURSIVE scanTexts(_, _)
scanTexts(texts, index) ==
  IF texts = <<>> THEN [threats |-> 0, score |-> 0, lastIndex |-> index]
  ELSE LET t    == test(Head(texts), index)
           rest == scanTexts(Tail(texts), t.lastIndex)
       IN  IF t.found
           THEN [rest EXCEPT !.threats = @ + 1, !.score = @ + PatternScore]
           ELSE rest

(* checkCombinations: substring tests on the joined texts. *)
checkCombinations(combination) == IF combination THEN CombinationScore ELSE 0

(* The module's analyze(analysis) for a record with the given texts. *)
moduleAnalyze(texts, combination, index) ==
  LET scan == scanTexts(texts, index)
  IN  [threats   |-> scan.threats + (IF combination THEN 1 ELSE 0),
       score     |-> scan.score + checkCombinations(combination),
       lastIndex |-> scan.lastIndex]

NoAnalysis ==
  [called |-> FALSE, texts |-> <<>>, combination |-> FALSE,
   cursorBefore |-> 0, threats |-> 0, score |-> 0]

ModuleAnalyze(texts, combination) ==
  /\ lastIndex' = moduleAnalyze(texts, combination, lastIndex).lastIndex
  /\ modLast' =
       [called |-> TRUE, texts |-> texts, combination |-> combination,
        cursorBefore |-> lastIndex,
        threats |-> moduleAnalyze(texts, combination, lastIndex).threats,
        score |-> moduleAnalyze(texts, combination, lastIndex).score]
  /\ UNCHANGED <<now, alive, mwVars, reVars, rmVars, rlVars, extVars>>

(* new XSSModule(config): the RegExp literals start with lastIndex 0. *)
InitMod ==
  /\ lastIndex = 0
  /\ modLast = NoAnalysis

NextMod ==
  \E texts \in Surfaces, combination \in BOOLEAN :
    ModuleAnalyze(texts, combination)

InitModules == IdleClock /\ IdleMW /\ IdleRE /\ IdleRM /\ IdleRL /\ InitMod /\ IdleExt

SpecModules == InitModules /\ [][NextMod]_vars

(* C19: the threats and the score a module returns for a record depend on  *)
(* the record only: they are those a new module instance returns for it,   *)
(* whatever was analysed before, and analysing the same record twice in a  *)
(* row gives the same result.                                              *)
C19_AnalysisDependsOnRequestOnly ==
  /\ [](modLast.called =>
          LET fresh == moduleAnalyze(modLast.texts, modLast.combination, 0)
          IN  modLast.threats = fresh.threats /\ modLast.score = fresh.score)
  /\ [][(modLast.called /\ modLast'.texts = modLast.texts
           /\ modLast'.combination = modLast.combination)
          => (modLast'.threats = modLast.threats
                /\ modLast'.score = modLast.score)]_vars

(* The texts of the surface that the pattern matches. *)
matching(texts) == {i \in 1..Len(texts) : matches(texts[i])}

(* C20: within one analyze call a threat is recorded and the pattern's     *)
(* score is added for every text of the search surface that the pattern    *)
(* matches, whatever matched in the texts before it.                       *)
C20_EveryMatchingTextCounted ==
  modLast.called =>
    /\ modLast.threats = Cardinality(matching(modLast.texts))
                           + (IF modLast.combination THEN 1 ELSE 0)
    /\ modLast.score = PatternScore * Cardinality(matching(modLast.texts))
                         + checkCombinations(modLast.combination)


(***************************************************************************)
(* SpecLearner: AdaptiveLearning.recordRequest (adaptive-learning.js       *)
(* 124-156) applied to bounded analyses.  BufferCap stands for the 10000   *)
(* of lines 143-144.                                                       *)
(***************************************************************************)
BufferCap == 3
MaxRecorded == 5

(* analysis.threats: none or one detected threat *)
ThreatLists == {<<>>, <<"sqli">>}

(* Array.prototype.slice(-n) *)
slice(s, n) == IF Len(s) > n THEN SubSeq(s, Len(s) - n + 1, Len(s)) ELSE s

(* the cap of lines 143-145 on learningData.requests *)
cappedRequests(pushed) ==
  IF Len(pushed) > BufferCap THEN slice(pushed, BufferCap) ELSE pushed

(* the entry pushed on learningData.threats, lines 149-154 *)
threatEntry(analysis) ==
  [timestamp |-> analysis.timestamp, ip |-> analysis.ip,
   threats |-> analysis.threats]

learnerRecordRequest(b, analysis) ==
  [requests |-> cappedRequests(Append(b.requests, analysis)),
   threats  |-> IF Len(analysis.threats) > 0
                  THEN Append(b.threats, threatEntry(analysis))
                  ELSE b.threats]

RecordRequest(ip, threats) ==
  LET analysis == [timestamp |-> Len(recorded) + 1, ip |-> ip,
                   threats |-> threats]
  IN  /\ Len(recorded) < MaxRecorded
      /\ buffers' = learnerRecordRequest(buffers, analysis)
      /\ recorded' = Append(recorded, analysis)
      /\ UNCHANGED <<now, alive, mwVars, reVars, rmVars, rlVars, modVars>>
      /\ UNCHANGED <<scVars, skVars, stVars, pmVars, idVars, scanVars, catVars>>

InitLearner ==
  IdleClock /\ IdleMW /\ IdleRE /\ IdleRM /\ IdleRL /\ IdleMod /\ IdleExt

NextLearner == \E ip \in IPs, threats \in ThreatLists : RecordRequest(ip, threats)

SpecLearner == InitLearner /\ [][NextLearner]_vars

(* the threats among the analyses recorded so far, in order *)
RECURSIVE threatsOf(_)
threatsOf(s) ==
  IF s = <<>> THEN <<>>
  ELSE LET rest == threatsOf(SubSeq(s, 1, Len(s) - 1))
           a == s[Len(s)]
       IN  IF Len(a.threats) > 0 THEN Append(rest, threatEntry(a)) ELSE rest

(* C21: after any sequence of recorded requests each buffer holds at most  *)
(* the cap, and each buffer is the newest entries of what was recorded     *)
(* (the oldest are the ones dropped).                                      *)
C21_BuffersCappedFIFO ==
  /\ Len(buffers.requests) <= BufferCap
  /\ Len(buffers.threats) <= BufferCap
  /\ buffers.requests = slice(recorded, BufferCap)
  /\ buffers.threats = slice(threatsOf(recorded), BufferCap)


(***************************************************************************)
(* SpecScorer: AnomalyScorer (anomaly-scorer.js) under the requests the    *)
(* middleware analyzes, its learning timer and the learner's phase timers. *)
(* Scores are in hundredths of a point.  A request is described by what    *)
(* the factor functions test of it.                                        *)
(***************************************************************************)
MaxScored == 2
TestModeThreshold == 10000      \* anomalyThreshold > 100 skips the scoring
FrequencyWindow == 0            \* 5 minutes: less than one tick

AnomalyThresholds == {200, 10100}

BrowserRequest ==
  [userAgent |-> [text |-> "Mozilla/5.0 (X11; Linux x86_64)", length |-> 31,
                  bot |-> FALSE],
   path |-> [text |-> "/", length |-> 1, suspicious |-> FALSE],
   query |-> {}, bodySize |-> 0, missingHeaders |-> 0]

ToolRequest ==
  [userAgent |-> [text |-> "", length |-> 0, bot |-> FALSE],
   path |-> [text |-> "/admin", length |-> 6, suspicious |-> TRUE],
   query |-> {"cmd"}, bodySize |-> 2000, missingHeaders |-> 2]

ScoredRequests == {BrowserRequest, ToolRequest}

(* new Date() at the request: a weekday noon, a weekday night, a Sunday    *)
Moments == {[hour |-> 12, day |-> 3], [hour |-> 3, day |-> 3],
            [hour |-> 12, day |-> 0]}

suspiciousParams == {"cmd", "exec", "eval", "system", "shell", "file", "path",
                     "dir", "root", "admin", "password", "passwd", "pwd",
                     "secret", "token", "key", "auth", "login"}

Min(a, b) == IF a < b THEN a ELSE b

(* map.get(key) || 0 *)
getOr0(map, key) == IF key \in DOMAIN map THEN map[key] ELSE 0

(* Array.from(map.values()).reduce((sum, count) => sum + count, 0) *)
sumValues(map) == SumScores(DOMAIN map, map)

(* calculateFrequencyAnomaly, lines 130-142: the entry is created, its     *)
(* window restarted when expired, and its count incremented.               *)
frequencyCounted(rf, ip, t) ==
  LET made == IF ip \in DOMAIN rf THEN rf[ip] ELSE [count |-> 0, window |-> t]
      kept == IF t - made.window > FrequencyWindow
              THEN [count |-> 0, window |-> t] ELSE made
  IN  put(rf, ip, [kept EXCEPT !.count = kept.count + 1])

(* calculateAverageRequestsPerWindow and lines 145-153, for the map after  *)
(* the increment: min((count - 2 * total / uniqueIPs) * 0.5, 10)           *)
calculateFrequencyAnomaly(rf, ip) ==
  LET total == SumScores(DOMAIN rf, [i \in DOMAIN rf |-> rf[i].count])
      uniqueIPs == Cardinality(DOMAIN rf)
      count == rf[ip].count
  IN  IF count * uniqueIPs > 2 * total
      THEN Min(((count * uniqueIPs - 2 * total) * 50) \div uniqueIPs, 1000)
      ELSE 0

calculateUserAgentAnomaly(bl, userAgent) ==
  LET frequency == getOr0(bl.userAgentPatterns, userAgent.text)
      totalRequests == sumValues(bl.userAgentPatterns)
  IN  IF userAgent.length < 10 THEN 300
      ELSE IF userAgent.bot THEN 200
      ELSE IF userAgent.length > 500 THEN 400
      ELSE IF totalRequests > 0 /\ frequency * 100 < totalRequests THEN 100
      ELSE 0

calculatePathAnomaly(bl, path) ==
  LET frequency == getOr0(bl.pathPatterns, path.text)
      totalRequests == sumValues(bl.pathPatterns)
  IN  IF path.suspicious THEN 200
      ELSE IF path.length > 200 THEN 100
      ELSE IF totalRequests > 0 /\ frequency * 200 < totalRequests THEN 100
      ELSE 0

(* the values of the model's query parameters are short and not encoded *)
calculateQueryAnomaly(query) ==
  Min(200 * Cardinality(query \cap suspiciousParams), 500)

calculateAverageBodySize(bl) ==
  LET sizes == DOMAIN bl.bodySizePatterns
      totalCount == sumValues(bl.bodySizePatterns)
      weightedSum ==
        SumScores(sizes, [s \in sizes |-> s * bl.bodySizePatterns[s]])
  IN  IF totalCount = 0 THEN 0 ELSE weightedSum \div totalCount

calculateBodySizeAnomaly(bl, bodySize) ==
  LET maxBodySize == calculateAverageBodySize(bl) * 3
  IN  IF bodySize > maxBodySize
      THEN Min((bodySize - maxBodySize) \div 10, 500) ELSE 0

(* the model's header values are short *)
calculateHeaderAnomaly(missingHeaders) ==
  Min(IF missingHeaders > 1 THEN 200 ELSE 0, 300)

calculateTimeAnomaly(moment) ==
  IF moment.hour >= 2 /\ moment.hour <= 6 THEN 100
  ELSE IF moment.day = 0 \/ moment.day = 6 THEN 50
  ELSE 0

calculateGeographicAnomaly == 0

(* line 117:  totalScore > this.config.anomalyThreshold || 5  is           *)
(* (totalScore > anomalyThreshold) || 5: true, or else the number 5.       *)
(* The value is written as its JavaScript literal.                         *)
isAnomaly(totalScore, anomalyThreshold) ==
  IF totalScore > anomalyThreshold THEN "true" ELSE "5"

(* calculateScore: the result, and the frequency map it leaves behind *)
calculateScore(req, ip, moment, t) ==
  IF scorer.anomalyThreshold > TestModeThreshold
  THEN [totalScore |-> 0, isAnomaly |-> "false",
        requestFrequency |-> baseline.requestFrequency]
  ELSE LET rf == frequencyCounted(baseline.requestFrequency, ip, t)
           totalScore ==
               calculateFrequencyAnomaly(rf, ip)
             + calculateUserAgentAnomaly(baseline, req.userAgent)
             + calculatePathAnomaly(baseline, req.path)
             + calculateQueryAnomaly(req.query)
             + calculateBodySizeAnomaly(baseline, req.bodySize)
             + calculateHeaderAnomaly(req.missingHeaders)
             + calculateTimeAnomaly(moment)
             + calculateGeographicAnomaly
       IN  [totalScore |-> totalScore,
            isAnomaly |-> isAnomaly(totalScore, scorer.anomalyThreshold),
            requestFrequency |-> rf]

bump(map, key) == put(map, key, getOr0(map, key) + 1)

RECURSIVE bumpAll(_, _)
bumpAll(map, keys) ==
  IF keys = {} THEN map
  ELSE LET k == CHOOSE x \in keys : TRUE
       IN  bumpAll(bump(map, k), keys \ {k})

(* updateBaseline, on the baseline calculateScore left *)
updateBaseline(bl, req, ip, t) ==
  IF ~scorer.isLearning THEN bl
  ELSE LET made == IF ip \in DOMAIN bl.requestFrequency
                   THEN bl.requestFrequency[ip]
                   ELSE [count |-> 0, window |-> t]
       IN  [requestFrequency |->
              put(bl.requestFrequency, ip,
                  [made EXCEPT !.count = made.count + 1]),
            userAgentPatterns |->
              IF req.userAgent.length > 0
              THEN bump(bl.userAgentPatterns, req.userAgent.text)
              ELSE bl.userAgentPatterns,
            pathPatterns |-> bump(bl.pathPatterns, req.path.text),
            queryPatterns |-> bumpAll(bl.queryPatterns, req.query),
            bodySizePatterns |->
              IF req.bodySize > 0
              THEN bump(bl.bodySizePatterns, req.bodySize)
              ELSE bl.bodySizePatterns]

(* The middleware on a request: analyzeRequest scores it and updates the   *)
(* baseline (config-manager.js 345-355), then the pipeline runs on the     *)
(* score.                                                                  *)
ScoredRequest(req, ip, moment) ==
  LET scored == calculateScore(req, ip, moment, now)
  IN  /\ stats.totalRequests < MaxScored
      /\ middleware(0, scored.totalScore \div 100, {}, "none", FALSE)
      /\ baseline' =
           updateBaseline(
             [baseline EXCEPT !.requestFrequency = scored.requestFrequency],
             req, ip, now)
      /\ anomaly' = [ip |-> ip, totalScore |-> scored.totalScore,
                     isAnomaly |-> scored.isAnomaly]
      /\ UNCHANGED <<scorer, reVars, rmVars, modVars, rlVars>>
      /\ UNCHANGED <<lrnVars, skVars, stVars, pmVars, idVars, scanVars, catVars>>

(* the timer of startLearning fires: isLearning = false, finalizeBaseline  *)
ScorerTimeout ==
  /\ alive
  /\ \E due \in scorer.timer : due <= now
  /\ scorer' = [scorer EXCEPT !.isLearning = FALSE, !.timer = NoTimer]
  /\ UNCHANGED <<now, alive, mwVars, reVars, rmVars, modVars, rlVars,
                 baseline, anomaly>>
  /\ UNCHANGED <<lrnVars, skVars, stVars, pmVars, idVars, scanVars, catVars>>

(* createWAF with and without adaptiveLearning *)
InitScorer ==
  /\ IdleClock /\ IdleRE /\ IdleRM /\ IdleRL /\ IdleMod /\ IdleLrn
  /\ IdleSk /\ IdleSt /\ IdlePm /\ IdleId /\ IdleScan /\ IdleCat
  /\ config \in [adaptiveLearning : BOOLEAN, dryRun : {FALSE},
                 threshold : {2}, learningPeriod : LearningPeriods]
  /\ threshold = engineThreshold(config)
  /\ rules = BuiltinScore
  /\ isLearning = config.adaptiveLearning
  /\ currentPhase = IF isLearning THEN "collecting" ELSE "protecting"
  /\ timers = IF isLearning
              THEN setupPhaseTransitions(config.learningPeriod, 0) ELSE <<>>
  /\ isLearningMode = (config.adaptiveLearning /\ isLearning)
  /\ learningData = [requests |-> 0, threatAnalysis |-> FALSE]
  /\ stats = [totalRequests |-> 0, blockedRequests |-> 0,
              threatsDetected |-> 0, learningModeRequests |-> 0,
              hourlyStats |-> {}]
  /\ hourKey = 0
  /\ errorListener = TRUE
  /\ last = NoRequest
  /\ \E anomalyThreshold \in AnomalyThresholds :
       scorer = [isLearning |-> TRUE,
                 timer |-> IF config.adaptiveLearning
                           THEN {timeoutDelay(config.learningPeriod)}
                           ELSE NoTimer,
                 anomalyThreshold |-> anomalyThreshold]
  /\ baseline = [requestFrequency |-> <<>>, userAgentPatterns |-> <<>>,
                 pathPatterns |-> <<>>, queryPatterns |-> <<>>,
                 bodySizePatterns |-> <<>>]
  /\ anomaly = NoScore

NextScorer ==
  \/ \E req \in ScoredRequests, ip \in IPs, moment \in Moments :
       ScoredRequest(req, ip, moment)
  \/ ScorerTimeout
  \/ FireTimer
  \/ AdvanceClock

SpecScorer == InitScorer /\ [][NextScorer]_vars

(* the baseline maps updateBaseline learns from *)
learnedMaps ==
  <<baseline.userAgentPatterns, baseline.pathPatterns,
    baseline.queryPatterns, baseline.bodySizePatterns>>

(* C22: in the Protecting phase a request leaves the user-agent, path,     *)
(* query-parameter and body-size maps unchanged, and of the frequency map  *)
(* only the requesting IP's entry may change.                              *)
C22_ProtectingFreezesBaseline ==
  [][currentPhase = "protecting" =>
       /\ learnedMaps' = learnedMaps
       /\ \A i \in DOMAIN baseline.requestFrequency :
            i # anomaly'.ip =>
              /\ i \in DOMAIN baseline'.requestFrequency
              /\ baseline'.requestFrequency[i] = baseline.requestFrequency[i]
    ]_vars

(* C23: with anomalyThreshold <= 100 the result's isAnomaly is true        *)
(* exactly when totalScore > anomalyThreshold, and false otherwise.        *)
C23_IsAnomalyIffAboveThreshold ==
  (anomaly # NoScore /\ scorer.anomalyThreshold <= TestModeThreshold) =>
    anomaly.isAnomaly =
      IF anomaly.totalScore > scorer.anomalyThreshold THEN "true" ELSE "false"


(***************************************************************************)
(* SpecSkip: the middleware from its first statement, shouldSkipPath, with *)
(* the rate limiter among the modules, the anomaly scorer and the learner  *)
(* (config-manager.js 262-310, 315-358, 363-382, 428-431).  A path is the  *)
(* sequence of pieces its string is made of, so that startsWith is the     *)
(* prefix order of sequences.                                              *)
(***************************************************************************)
MaxServed == 3

DefaultSkipPaths == {<<"/health">>, <<"/metrics">>, <<"/favicon.ico">>}

RequestPaths == {<<"/health">>, <<"/metrics">>, <<"/api">>,
                 <<"/health", "check">>}

(* String.prototype.startsWith *)
startsWith(path, prefix) ==
  /\ Len(prefix) <= Len(path)
  /\ SubSeq(path, 1, Len(prefix)) = prefix

shouldSkipPath_Never(path) == FALSE

shouldSkipPath(path) ==
  \E skipPath \in DefaultSkipPaths : startsWith(path, skipPath)

(* return next() at line 267: nothing else has run *)
skipped ==
  [NoRequest EXCEPT !.handled = TRUE, !.phase = currentPhase,
                    !.learningMode = isLearningMode, !.dryRun = config.dryRun,
                    !.status = "next", !.blockedBefore = stats.blockedRequests]

(* handleLearningMode -> AdaptiveLearning.processRequest -> recordRequest *)
learnedRequest(ip, threats) ==
  [timestamp |-> Len(recorded) + 1, ip |-> ip, threats |-> threats]

ServedRequest(path, req, ip, moment) ==
  /\ alive
  /\ served.n < MaxServed
  /\ served' = [n |-> served.n + 1, path |-> path]
  /\ IF shouldSkipPath(path)
     THEN /\ last' = skipped
          /\ UNCHANGED <<now, alive, config, threshold, rules, isLearningMode,
                         isLearning, currentPhase, learningData, timers,
                         stats, hourKey, errorListener>>
          /\ UNCHANGED <<requests, blockedIPs, result, window, baseline,
                         anomaly, buffers, recorded>>
     ELSE LET scored == calculateScore(req, ip, moment, now)
              learns == isLearningMode /\ isLearning
              threats == IF result'.score > 0 THEN <<result'.pattern>>
                         ELSE <<>>
          IN  /\ analyze(ip)
              /\ middleware(result'.score, scored.totalScore \div 100, {},
                            "none", FALSE)
              /\ baseline' =
                   updateBaseline(
                     [baseline EXCEPT
                        !.requestFrequency = scored.requestFrequency],
                     req, ip, now)
              /\ anomaly' = [ip |-> ip, totalScore |-> scored.totalScore,
                             isAnomaly |-> scored.isAnomaly]
              /\ buffers' =
                   IF learns
                   THEN learnerRecordRequest(buffers,
                                             learnedRequest(ip, threats))
                   ELSE buffers
              /\ recorded' =
                   IF learns
                   THEN Append(recorded, learnedRequest(ip, threats))
                   ELSE recorded
  /\ UNCHANGED <<rl, destroyed, scorer, reVars, rmVars, modVars>>
  /\ UNCHANGED <<stVars, pmVars, idVars, scanVars, catVars>>

(* createWAF with the default skipPaths, rate limiting and IP blocking on *)
InitSkip ==
  /\ IdleClock /\ IdleRE /\ IdleRM /\ IdleMod /\ IdleLrn /\ IdleSk
  /\ IdleSt /\ IdlePm /\ IdleId /\ IdleScan /\ IdleCat
  /\ config \in [adaptiveLearning : BOOLEAN, dryRun : BOOLEAN,
                 threshold : {2}, learningPeriod : {5}]
  /\ threshold = engineThreshold(config)
  /\ rules = BuiltinScore
  /\ isLearning = config.adaptiveLearning
  /\ currentPhase = IF isLearning THEN "collecting" ELSE "protecting"
  /\ timers = IF isLearning
              THEN setupPhaseTransitions(config.learningPeriod, 0) ELSE <<>>
  /\ isLearningMode = (config.adaptiveLearning /\ isLearning)
  /\ learningData = [requests |-> 0, threatAnalysis |-> FALSE]
  /\ stats = [totalRequests |-> 0, blockedRequests |-> 0,
              threatsDetected |-> 0, learningModeRequests |-> 0,
              hourlyStats |-> {}]
  /\ hourKey = 0
  /\ errorListener = TRUE
  /\ last = NoRequest
  /\ rl = rateLimitConstructor(
            [rateLimit  |-> [enabled |-> TRUE, windowMs |-> WindowTicks,
                             max |-> 1],
             ipBlocking |-> [enabled |-> TRUE, blockDuration |-> BlockTicks,
                             maxViolations |-> 1]])
  /\ requests = <<>>
  /\ blockedIPs = <<>>
  /\ destroyed = FALSE
  /\ result = NoResult
  /\ window = [ip \in IPs |-> NoWindow]
  /\ scorer = [isLearning |-> TRUE,
               timer |-> IF config.adaptiveLearning
                         THEN {timeoutDelay(config.learningPeriod)}
                         ELSE NoTimer,
               anomalyThreshold |-> 500]
  /\ baseline = [requestFrequency |-> <<>>, userAgentPatterns |-> <<>>,
                 pathPatterns |-> <<>>, queryPatterns |-> <<>>,
                 bodySizePatterns |-> <<>>]
  /\ anomaly = NoScore

NextSkip ==
  \/ \E path \in RequestPaths, req \in ScoredRequests, ip \in IPs :
       ServedRequest(path, req, ip, [hour |-> 12, day |-> 3])
  \/ AdvanceClock

SpecSkip == InitSkip /\ [][NextSkip]_vars

(* C24: a request whose path is one of the skip paths is passed on and     *)
(* leaves the stats counters, the anomaly baseline, the rate and block     *)
(* tables and the learner's buffers as they were, and emits no event.      *)
C24_SkipPathBypassesPipeline ==
  [][(served'.n # served.n /\ served'.path \in DefaultSkipPaths) =>
       /\ last'.status = "next"
       /\ last'.events = NoEvents
       /\ UNCHANGED <<stats, baseline, requests, blockedIPs, buffers,
                      learningData>>
    ]_vars

(* a skip-path request served after the pipeline has run on another one *)
C24_Witness ==
  /\ served.path \in DefaultSkipPaths
  /\ last = skipped
  /\ stats.totalRequests > 0
  /\ requests # <<>>
  /\ baseline.pathPatterns # <<>>


(***************************************************************************)
(* SpecStats: the maps of StatsCollector (stats-collector.js 40-71,        *)
(* 247-258, 279-293) under requests, passing hours and POST /stats/reset.  *)
(* A day has HoursPerDay hours and the configuration keeps RetentionDays   *)
(* days (config.stats.retentionDays).                                      *)
(***************************************************************************)
MaxWallHour == 5
HoursPerDay == 2
RetentionDays == 1

getHourKey(h) == h
getDayKey(h) == h \div HoursPerDay

(* recordRequest, lines 43-63: each bucket is created when it is missing *)
recordedMaps(m, h, ip) ==
  [hourlyStats |-> m.hourlyStats \cup {getHourKey(h)},
   dailyStats  |-> m.dailyStats \cup {getDayKey(h)},
   ipStats     |-> m.ipStats \cup {ip},
   startTime   |-> m.startTime]

CollectRequest(ip) ==
  /\ statMaps' = recordedMaps(statMaps, wallHour, ip)
  /\ UNCHANGED <<wallHour, now, alive, mwVars, reVars, rmVars, rlVars,
                 modVars>>
  /\ UNCHANGED <<lrnVars, scVars, skVars, pmVars, idVars, scanVars, catVars>>

(* StatsCollector.reset *)
ResetStats ==
  /\ statMaps' = [hourlyStats |-> {}, dailyStats |-> {}, ipStats |-> {},
                  startTime |-> wallHour]
  /\ UNCHANGED <<wallHour, now, alive, mwVars, reVars, rmVars, rlVars,
                 modVars>>
  /\ UNCHANGED <<lrnVars, scVars, skVars, pmVars, idVars, scanVars, catVars>>

HourPasses ==
  /\ wallHour < MaxWallHour
  /\ wallHour' = wallHour + 1
  /\ UNCHANGED <<statMaps, now, alive, mwVars, reVars, rmVars, rlVars,
                 modVars>>
  /\ UNCHANGED <<lrnVars, scVars, skVars, pmVars, idVars, scanVars, catVars>>

InitStats ==
  /\ IdleClock /\ IdleMW /\ IdleRE /\ IdleRM /\ IdleRL /\ IdleMod
  /\ IdleExt

NextStats ==
  \/ \E ip \in IPs : CollectRequest(ip)
  \/ ResetStats
  \/ HourPasses

SpecStats == InitStats /\ [][NextStats]_vars

(* C25: the hour and day buckets kept are bounded by the retention: no     *)
(* more days than retentionDays and the running one, and no more hours     *)
(* than those days hold.                                                   *)
C25_BucketsBoundedByRetention ==
  /\ Cardinality(statMaps.dailyStats) <= RetentionDays + 1
  /\ Cardinality(statMaps.hourlyStats) <= (RetentionDays + 1) * HoursPerDay


(***************************************************************************)
(* SpecMetrics: PrometheusMetrics (prometheus-metrics.js) with the         *)
(* histogram family waf_threat_score, the summary family                   *)
(* waf_rule_evaluation_time_seconds and the counter waf_rule_matches_total *)
(* under observeHistogram, observeSummary and recordRuleMatch.             *)
(***************************************************************************)
MaxObservations == 3

(* createHistogram('waf_threat_score', ..., [1, 2, 3, 5, 10, 20, 50]) *)
buckets == <<1, 2, 3, 5, 10, 20, 50>>

ObservedValues == {1, 4, 60}
LabelKeys == {"module=xss", "module=sqli"}
Categories == {"category=xss", "category=sqli"}
Quantiles == {50, 90, 95, 99}      \* 0.5, 0.9, 0.95, 0.99 in hundredths

(* new Array(n).fill(0) *)
zeros(n) == [i \in 1..n |-> 0]

(* the loop of lines 141-146: the first bucket the value fits in, or none *)
firstBucket(value) ==
  LET fits == {i \in 1..Len(buckets) : value <= buckets[i]}
  IN  IF fits = {} THEN 0 ELSE CHOOSE i \in fits : \A j \in fits : i <= j

(* metric.labelValues.get(key) || { count: 0, sum: 0, bucketCounts } *)
histogramData(labelValues, key) ==
  IF key \in DOMAIN labelValues THEN labelValues[key]
  ELSE [count |-> 0, sum |-> 0, bucketCounts |-> zeros(Len(buckets) + 1)]

observeHistogram(metric, value, key) ==
  LET data == histogramData(metric.labelValues, key)
      i == firstBucket(value)
      counted == [k \in 1..Len(buckets) + 1 |->
                    IF k = i \/ k = Len(buckets) + 1
                    THEN data.bucketCounts[k] + 1 ELSE data.bucketCounts[k]]
  IN  [count |-> metric.count + 1, sum |-> metric.sum + value,
       labelValues |->
         put(metric.labelValues, key,
             [count |-> data.count + 1, sum |-> data.sum + value,
              bucketCounts |-> counted])]

(* metric.labelValues.get(key) || { count: 0, sum: 0, values: [] } *)
summaryData(labelValues, key) ==
  IF key \in DOMAIN labelValues THEN labelValues[key]
  ELSE [count |-> 0, sum |-> 0, values |-> <<>>]

(* data.quantiles.set on a data object without a quantiles property is a   *)
(* TypeError                                                               *)
observeSummaryThrows(metric, key) ==
  "quantiles" \notin DOMAIN summaryData(metric.labelValues, key)

(* [...values].sort((a, b) => a - b) *)
RECURSIVE sorted(_)
sorted(values) ==
  IF values = <<>> THEN <<>>
  ELSE LET least == CHOOSE i \in 1..Len(values) :
                      \A j \in 1..Len(values) : values[i] <= values[j]
       IN  <<values[least]>> \o sorted(removeAt(values, least))

(* sorted[Math.max(0, Math.ceil(q * sorted.length) - 1)], q in hundredths *)
quantile(values, q) ==
  LET index == ((q * Len(values) + 99) \div 100) - 1
  IN  sorted(values)[(IF index > 0 THEN index ELSE 0) + 1]

(* observeSummary when nothing throws *)
observeSummary(metric, value, key) ==
  LET data == summaryData(metric.labelValues, key)
      values == Append(data.values, value)
  IN  [count |-> metric.count + 1, sum |-> metric.sum + value,
       labelValues |->
         put(metric.labelValues, key,
             [count |-> data.count + 1, sum |-> data.sum + value,
              values |-> values,
              quantiles |-> [q \in Quantiles |-> quantile(values, q)]])]

incrementCounter(metric, value, key) ==
  [value |-> metric.value + value,
   labelValues |-> put(metric.labelValues, key,
                       getOr0(metric.labelValues, key) + value)]

(* what the callers attempted so far *)
attempts == IF pmLast = NoCall THEN 0 ELSE pmLast.n

logged(log, key, value) ==
  put(log, key, Append(IF key \in DOMAIN log THEN log[key] ELSE <<>>, value))

call(op, key, value, threw) ==
  [n |-> attempts + 1, op |-> op, key |-> key, value |-> value,
   threw |-> threw,
   countBefore |-> summaryData(metrics.summary.labelValues, key).count,
   sumBefore |-> summaryData(metrics.summary.labelValues, key).sum]

pmFrame ==
  /\ UNCHANGED <<now, alive, mwVars, reVars, rmVars, rlVars, modVars>>
  /\ UNCHANGED <<lrnVars, scVars, skVars, stVars, idVars, scanVars, catVars>>

ObserveHistogram(value, key) ==
  /\ attempts < MaxObservations
  /\ metrics' = [metrics EXCEPT
                   !.histogram = observeHistogram(@, value, key)]
  /\ observations' = [observations EXCEPT
                        !.histogram = logged(@, key, value)]
  /\ pmLast' = call("observeHistogram", key, value, FALSE)
  /\ pmFrame

ObserveSummary(value, key) ==
  /\ attempts < MaxObservations
  /\ IF observeSummaryThrows(metrics.summary, key)
     THEN /\ UNCHANGED metrics
          /\ pmLast' = call("observeSummary", key, value, TRUE)
     ELSE /\ metrics' = [metrics EXCEPT
                           !.summary = observeSummary(@, value, key)]
          /\ pmLast' = call("observeSummary", key, value, FALSE)
  /\ observations' = [observations EXCEPT !.summary = logged(@, key, value)]
  /\ pmFrame

(* recordRuleMatch: the counter, then the summary *)
RecordRuleMatch(category, evaluationTime) ==
  /\ attempts < MaxObservations
  /\ LET counted == [metrics EXCEPT
                       !.counter = incrementCounter(@, 1, category)]
     IN  IF observeSummaryThrows(metrics.summary, category)
         THEN /\ metrics' = counted
              /\ pmLast' = call("recordRuleMatch", category, evaluationTime,
                                TRUE)
         ELSE /\ metrics' = [counted EXCEPT
                               !.summary = observeSummary(@, evaluationTime,
                                                          category)]
              /\ pmLast' = call("recordRuleMatch", category, evaluationTime,
                                FALSE)
  /\ observations' = [observations EXCEPT
                        !.summary = logged(@, category, evaluationTime)]
  /\ pmFrame

InitMetrics ==
  /\ IdleClock /\ IdleMW /\ IdleRE /\ IdleRM /\ IdleRL /\ IdleMod
  /\ IdleExt

NextMetrics ==
  \/ \E value \in ObservedValues, key \in LabelKeys :
       ObserveHistogram(value, key)
  \/ \E value \in ObservedValues, key \in Categories :
       ObserveSummary(value, key)
  \/ \E value \in ObservedValues, key \in Categories :
       RecordRuleMatch(key, value)

SpecMetrics == InitMetrics /\ [][NextMetrics]_vars

(* generatePrometheusOutput, lines 298-308: the samples of one label set   *)
emitted(key) ==
  LET data == metrics.histogram.labelValues[key]
  IN  [count |-> data.count, sum |-> data.sum,
       bucket |-> [i \in 1..Len(buckets) + 1 |-> data.bucketCounts[i]]]

RECURSIVE sumOf(_)
sumOf(values) ==
  IF values = <<>> THEN 0 ELSE values[1] + sumOf(Tail(values))

(* C26: for every label set of the histogram the value emitted for each    *)
(* bucket bound b is the number of observations <= b, the +Inf bucket is   *)
(* _count, and _sum is the sum of the observed values.                     *)
C26_BucketsAreCumulative ==
  \A key \in DOMAIN metrics.histogram.labelValues :
    LET seen == observations.histogram[key]
        upTo(b) == Cardinality({k \in 1..Len(seen) : seen[k] <= b})
    IN  /\ \A i \in 1..Len(buckets) : emitted(key).bucket[i] = upTo(buckets[i])
        /\ emitted(key).bucket[Len(buckets) + 1] = emitted(key).count
        /\ emitted(key).count = Len(seen)
        /\ emitted(key).sum = sumOf(seen)

(* C27: observing a value on the summary family succeeds for any label     *)
(* set, the first observation included: afterwards _count is one more,     *)
(* _sum is more by the value, and the four quantiles are defined.          *)
C27_SummaryObservationSucceeds ==
  (pmLast # NoCall /\ pmLast.op \in {"observeSummary", "recordRuleMatch"}) =>
    /\ ~pmLast.threw
    /\ pmLast.key \in DOMAIN metrics.summary.labelValues
    /\ LET data == metrics.summary.labelValues[pmLast.key]
       IN  /\ data.count = pmLast.countBefore + 1
           /\ data.sum = pmLast.sumBefore + pmLast.value
           /\ DOMAIN data.quantiles = Quantiles


(***************************************************************************)
(* SpecRequestId: RuleEngine.evaluate with the requestId it generates      *)
(* (rule-engine.js 138-170, 240-242).  A tick of the clock is one          *)
(* millisecond; Math.random() is any of the values of RandomSuffixes.      *)
(***************************************************************************)
MaxIds == 3
RandomSuffixes == {"a", "b"}

(* `req_${Date.now()}_${Math.random().toString(36).substr(2, 9)}` *)
generateRequestId(ms, random) == <<"req", ms, random>>

EvaluateWithId(moduleScore, matched, random) ==
  /\ alive
  /\ Len(requestIds) < MaxIds
  /\ evaluateRequest(moduleScore, 0, matched)
  /\ requestIds' = Append(requestIds, generateRequestId(now, random))
  /\ UNCHANGED <<now, alive, mwVars, rmVars, rlVars, modVars>>
  /\ UNCHANGED <<lrnVars, scVars, skVars, stVars, pmVars, scanVars, catVars>>

InitRequestId ==
  /\ IdleClock /\ IdleMW /\ IdleRE /\ IdleRM /\ IdleRL /\ IdleMod
  /\ IdleExt

NextRequestId ==
  \/ \E moduleScore \in 0..MaxModuleScore, matched \in PayloadMatches,
        random \in RandomSuffixes :
       EvaluateWithId(moduleScore, matched, random)
  \/ AdvanceClock

SpecRequestId == InitRequestId /\ [][NextRequestId]_vars

(* C28: the requestId of every evaluation differs from that of every other *)
(* evaluation, also within one millisecond, and the time the ids carry     *)
(* never decreases in call order.                                          *)
C28_RequestIdsUniqueAndMonotonic ==
  \A i, j \in 1..Len(requestIds) :
    i < j => /\ requestIds[i] # requestIds[j]
             /\ requestIds[i][2] <= requestIds[j][2]


-----------------------------------------------------------------------------
(* C30: in the Protecting phase with dryRun off, a request for which       *)
(* evaluate returned block is answered with 403 and not passed on, also    *)
(* when the wall-clock hour changes between recordRequest and recordThreat *)
(* (specification Spec).                                                   *)
C30_BlockVerdictAnswered403 ==
  (/\ last.handled /\ last.phase = "protecting" /\ ~last.dryRun
   /\ last.verdict = "block")
  => (last.status = "403" /\ ~last.escaped)

-----------------------------------------------------------------------------
(* The modules and the rule engine on the texts of a request *)

MaxScans == 3          \* requests scanned in one run

(* The request of the example, as Express hands it over without a body     *)
(* parser and behind express.json(), which leaves req.body = {} on a GET;  *)
(* an OR injection, a script tag, an injection in a cookie and a clean     *)
(* request.  query, headers and cookies list the values of the objects.    *)
request(url, path, query, body, cookies) ==
  [url |-> url, path |-> path, query |-> query, body |-> body,
   headers |-> <<"localhost">>, cookies |-> cookies]

UnionSelectUrl == "/api/search?q=1 UNION SELECT * FROM users"

ScannedRequests ==
  { request(UnionSelectUrl, "/api/search", <<"1 UNION SELECT * FROM users">>,
            "", <<>>),
    request(UnionSelectUrl, "/api/search", <<"1 UNION SELECT * FROM users">>,
            "{}", <<>>),
    request("/login?user=1 OR 1=1", "/login", <<"1 OR 1=1">>, "", <<>>),
    request("/c?t=<script>alert(1)</script>", "/c",
            <<"<script>alert(1)</script>">>, "", <<>>),
    request("/", "/", <<>>, "", <<"x UNION SELECT 1">>),
    request("/api/users?name=alice", "/api/users", <<"alice">>, "", <<>>) }

(* extractSearchTexts, the same in both modules and in the rule engine:    *)
(* the path, the query values, the body when it is truthy (an object is    *)
(* given here as its JSON text), the header values and the cookie values.  *)
extractSearchTexts(analysis) ==
  <<analysis.path>> \o analysis.query
    \o (IF analysis.body # "" THEN <<analysis.body>> ELSE <<>>)
    \o analysis.headers \o analysis.cookies

(* searchTexts.join(' ') *)
RECURSIVE join(_)
join(texts) ==
  IF Len(texts) = 0 THEN ""
  ELSE IF Len(texts) = 1 THEN texts[1]
  ELSE texts[1] \o " " \o join(Tail(texts))

(* searchTexts.forEach(text => pattern.pattern.test(text)) for one pattern: *)
(* the number of texts it matches and the lastIndex it is left with.  The  *)
(* module never resets lastIndex, so each test starts where the last one   *)
(* on the same RegExp ended.  The texts come lower-cased (flag i).         *)
RECURSIVE testTexts(_, _, _, _)
testTexts(pattern, texts, x, cursor) ==
  IF x > Len(texts) THEN [hits |-> 0, cursor |-> cursor]
  ELSE LET r    == regexTest(texts[x], pattern, cursor)
           rest == testTexts(pattern, texts, x + 1, r.lastIndex)
       IN  [hits   |-> rest.hits + (IF r.found THEN 1 ELSE 0),
            cursor |-> rest.cursor]

RECURSIVE lowerAll(_)
lowerAll(texts) ==
  IF Len(texts) = 0 THEN <<>>
  ELSE <<toLowerCase(Head(texts))>> \o lowerAll(Tail(texts))

(* this.patterns.forEach(pattern => searchTexts.forEach(...)) over the     *)
(* patterns lo..hi: the pattern's score for every pattern and every text   *)
(* it matches, and the lastIndex every pattern is left with.  Each pattern *)
(* has a RegExp of its own, so the range is scanned in two halves.         *)
RECURSIVE patternScan(_, _, _, _, _)
patternScan(patterns, texts, cur, lo, hi) ==
  IF lo > hi THEN [score |-> 0, cursors |-> <<>>]
  ELSE IF lo = hi
  THEN LET scan == testTexts(patterns[lo].pattern, texts, 1, cur[lo])
       IN  [score   |-> scan.hits * patterns[lo].score,
            cursors |-> <<scan.cursor>>]
  ELSE LET mid   == (lo + hi) \div 2
           left  == patternScan(patterns, texts, cur, lo, mid)
           right == patternScan(patterns, texts, cur, mid + 1, hi)
       IN  [score   |-> left.score + right.score,
            cursors |-> left.cursors \o right.cursors]

(* SQLiModule.checkCombinations, as the sum of the scores of its threats *)
sqliCombinations(searchTexts) ==
  LET text   == toLowerCase(join(searchTexts))
      has(s) == includes(text, s)
  IN  (IF has("union") /\ has("information_schema") THEN 5 ELSE 0)
      + (IF has("sleep") /\ (has("union") \/ has("or")) THEN 5 ELSE 0)
      + (IF has(";") /\ (has("select") \/ has("drop")) THEN 4 ELSE 0)
      + (IF (has("--") \/ has("#")) /\ (has("select") \/ has("union"))
         THEN 4 ELSE 0)

(* XSSModule.checkCombinations, as the sum of the scores of its threats *)
xssCombinations(searchTexts) ==
  LET text   == toLowerCase(join(searchTexts))
      has(s) == includes(text, s)
  IN  (IF has("<script") /\ (has("alert") \/ has("document")) THEN 4 ELSE 0)
      + (IF (has("onclick") \/ has("onload")) /\ has("javascript:")
         THEN 4 ELSE 0)
      + (IF has("&#x") /\ (has("script") \/ has("alert")) THEN 3 ELSE 0)

(* SQLiModule.analyze: totalScore of the pattern scan and the combinations *)
(* (the result is null without threats, which adds nothing either).        *)
sqliAnalyze(analysis, cur) ==
  LET searchTexts == extractSearchTexts(analysis)
      scan        == patternScan(sqliPatterns, lowerAll(searchTexts), cur,
                                 1, Len(sqliPatterns))
  IN  [score   |-> scan.score + sqliCombinations(searchTexts),
       cursors |-> scan.cursors]

(* XSSModule.analyze *)
xssAnalyze(analysis, cur) ==
  LET searchTexts == extractSearchTexts(analysis)
      scan        == patternScan(xssPatterns, lowerAll(searchTexts), cur,
                                 1, Len(xssPatterns))
  IN  [score   |-> scan.score + xssCombinations(searchTexts),
       cursors |-> scan.cursors]

(* RuleEngine.loadRulesFromManager: the enabled rules of the manager, all  *)
(* ten defaults, each with its score.                                      *)
enabledRuleScores ==
  [id \in {createDefaultBuiltInRules[r].id :
             r \in 1..Len(createDefaultBuiltInRules)} |->
     LET r == CHOOSE q \in 1..Len(createDefaultBuiltInRules) :
                createDefaultBuiltInRules[q].id = id
     IN  createDefaultBuiltInRules[r].score]

(* RuleEngine.evaluateRule on real texts: lastIndex is reset to 0 before   *)
(* every test, so some text matches the rule's pattern from its start.     *)
matchedRulesOf(analysis) ==
  LET texts == lowerAll(extractSearchTexts(analysis))
  IN  {createDefaultBuiltInRules[r].id :
         r \in {q \in 1..Len(createDefaultBuiltInRules) :
                  \E x \in 1..Len(texts) :
                    regexTest(texts[x], createDefaultBuiltInRules[q].pattern,
                              0).found}}

(* One request through the middleware with modules ['xss', 'sqli'] and the *)
(* anomaly threshold of the unit tests, under which the anomaly score of   *)
(* these requests is 0: analyzeRequest runs the modules in their order,    *)
(* then evaluate scans the flat rules.                                     *)
ScanRequest(req) ==
  /\ stats.totalRequests < MaxScans
  /\ LET xss  == xssAnalyze(req, cursors.xss)
         sqli == sqliAnalyze(req, cursors.sqli)
     IN  /\ middleware(xss.score + sqli.score, 0, matchedRulesOf(req),
                       "none", FALSE)
         /\ cursors' = [xss |-> xss.cursors, sqli |-> sqli.cursors]
         /\ scanned' = Append(scanned, req.url)
  /\ UNCHANGED <<reVars, rmVars, rlVars, modVars>>
  /\ UNCHANGED <<lrnVars, scVars, skVars, stVars, pmVars, idVars, catVars>>

(* createWAF({modules: ['xss', 'sqli'], adaptiveLearning: false}) with the *)
(* default threshold and with the threshold of the unit tests.             *)
TestThreshold == 3

InitScan ==
  /\ IdleClock /\ IdleRE /\ IdleRM /\ IdleRL /\ IdleMod /\ IdleExt
  /\ config \in [adaptiveLearning : {FALSE}, dryRun : {FALSE},
                 threshold : {DefaultThreshold, TestThreshold},
                 learningPeriod : {5}]
  /\ threshold = engineThreshold(config)
  /\ rules = enabledRuleScores
  /\ isLearning = FALSE
  /\ currentPhase = "protecting"
  /\ timers = <<>>
  /\ isLearningMode = FALSE
  /\ learningData = [requests |-> 0, threatAnalysis |-> FALSE]
  /\ stats = [totalRequests |-> 0, blockedRequests |-> 0,
              threatsDetected |-> 0, learningModeRequests |-> 0,
              hourlyStats |-> {}]
  /\ hourKey = 0
  /\ errorListener = TRUE
  /\ last = NoRequest

NextScan == \E req \in ScannedRequests : ScanRequest(req)

SpecScan == InitScan /\ [][NextScan]_vars

(* C29: the request GET /api/search?q=1 UNION SELECT * FROM users has the  *)
(* total score 4, so it is let through under the default threshold 10 and  *)
(* answered 403 under threshold 3.                                         *)
C29_UnionSelectScoresFour ==
  (scanned # <<>> /\ scanned[Len(scanned)] = UnionSelectUrl) =>
    /\ last.total = 4
    /\ threshold = DefaultThreshold => last.status = "next"
    /\ threshold = TestThreshold => last.status = "403"

-----------------------------------------------------------------------------
(* The body of the 403 response *)

(* C31: in every 403 response the score field is the total score that was  *)
(* compared with the threshold and that the reason text quotes.            *)
(* handleBlock answers score: decision.analysis.score (last.score), while  *)
(* the reason of a block quotes result.score (last.total), the score after *)
(* the flat rules were added.                                              *)
C31_ResponseScoreIsDecisionScore ==
  (last.handled /\ last.status = "403") => last.score = last.total


(* C32: in every state of the learner, isLearning is false exactly when    *)
(* currentPhase is protecting, also after the admin stop-learning and      *)
(* start-learning operations.                                              *)
C32_LearningIffNotProtecting ==
  (~isLearning) <=> (currentPhase = "protecting")

-----------------------------------------------------------------------------
(* Custom-rule operations on any id of the manager *)

(* POST, PUT and DELETE of the custom-rule endpoints: the id of an added   *)
(* rule is the caller's and may be the id of a built-in rule.              *)
AddedRules ==
  [id : ManagerIds, hasFields : {TRUE}, score : {MaxRuleScore},
   pattern : {StringOf("<script"), StringOf("(")}, enabled : {TRUE}]

AddedUpdates ==
  [score : {<<>>, <<MaxRuleScore>>}, enabled : {<<>>},
   pattern : {<<>>, <<StringOf("(")>>}]

NextCustomRules ==
  \/ \E rule \in AddedRules : AddCustomRule(rule)
  \/ \E id \in ManagerIds, updates \in AddedUpdates :
       UpdateCustomRule(id, updates)
  \/ \E id \in ManagerIds : DeleteCustomRule(id)

SpecCustomRules == InitRuleManager /\ [][NextCustomRules]_vars

(* C33: no sequence of custom-rule operations (add, update, delete)        *)
(* removes or alters a built-in rule: every built-in id stays in the map   *)
(* with source builtin and its original pattern and score.                 *)
C33_BuiltinRulesUntouched ==
  \A r \in 1..Len(defaultRules) :
    /\ defaultRules[r].id \in DOMAIN ruleMap
    /\ ruleMap[defaultRules[r].id].source = "builtin"
    /\ ruleMap[defaultRules[r].id].pattern = defaultRules[r].pattern
    /\ ruleMap[defaultRules[r].id].score = defaultRules[r].score

(* C34: an update of a custom rule that throws leaves the stored rule as   *)
(* it was before the call.                                                 *)
C34_FailedUpdateChangesNothing ==
  [][(rmLast'.op = "update" /\ rmLast'.threw) => ruleMap' = ruleMap]_vars

-----------------------------------------------------------------------------
(* The Rule Manager's category index *)

MaxListed == 3         \* ids listed under one category

CategoryNames == {"xss", "sqli"}
IndexedIds == {"custom", "xss-script-tag"}
IndexedRules ==
  [id : IndexedIds, hasFields : {TRUE}, score : {MaxRuleScore},
   pattern : {StringOf("<script"), StringOf("(")}, enabled : {TRUE}]
CategoryUpdates == {<<>>} \cup {<<c>> : c \in CategoryNames}

(* if (!ruleCategories.has(c)) ruleCategories.set(c, []);                  *)
(* ruleCategories.get(c).push(id)                                          *)
pushCategory(index, category, id) ==
  put(index, category,
      IF category \in DOMAIN index THEN Append(index[category], id)
      ELSE <<id>>)

(* categoryRules.indexOf(id) and splice(index, 1): the first occurrence of *)
(* id leaves the list of the rule's category, when there is one.           *)
spliceCategory(index, category, id) ==
  IF category \notin DOMAIN index THEN index
  ELSE LET categoryRules == index[category]
           found == {i \in 1..Len(categoryRules) : categoryRules[i] = id}
       IN  IF found = {} THEN index
           ELSE put(index, category,
                    removeAt(categoryRules,
                             CHOOSE i \in found : \A j \in found : i <= j))

(* getStats().byCategory *)
byCategory == [c \in DOMAIN ruleCategories |-> Len(ruleCategories[c])]

catFrame ==
  /\ UNCHANGED <<now, alive, mwVars, modVars, reVars, rlVars>>
  /\ UNCHANGED <<lrnVars, scVars, skVars, stVars, pmVars, idVars, scanVars>>

(* addCustomRule(rule) with rule.category = category *)
IndexedAdd(rule, category) ==
  /\ category \in DOMAIN ruleCategories =>
       Len(ruleCategories[category]) < MaxListed
  /\ LET outcome == addCustomRule(rule)
     IN  /\ ruleMap' = outcome.map
         /\ rmLast' = operation("add", rule.id, outcome)
         /\ ruleCategory' = IF outcome.threw THEN ruleCategory
                            ELSE put(ruleCategory, rule.id, category)
         /\ ruleCategories' =
              IF outcome.threw THEN ruleCategories
              ELSE pushCategory(ruleCategories, category, rule.id)
  /\ catFrame

(* importRules(file) of a file with one rule: addRules(rules, 'imported') *)
IndexedImport(rule, category) ==
  /\ category \in DOMAIN ruleCategories =>
       Len(ruleCategories[category]) < MaxListed
  /\ LET skippedRule == ~validateRule(rule) \/ patternThrows(rule.pattern)
     IN  /\ ruleMap' = addRules(ruleMap, <<rule>>, "imported")
         /\ rmLast' = [operation("import", "none", [threw |-> FALSE])
                         EXCEPT !.batch = <<rule>>, !.before = DOMAIN ruleMap]
         /\ ruleCategory' = IF skippedRule THEN ruleCategory
                            ELSE put(ruleCategory, rule.id, category)
         /\ ruleCategories' =
              IF skippedRule THEN ruleCategories
              ELSE pushCategory(ruleCategories, category, rule.id)
  /\ catFrame

(* updateCustomRule(id, updates): Object.assign also assigns a category of *)
(* the updates; ruleCategories is not touched.                             *)
IndexedUpdate(id, updates, category) ==
  /\ LET outcome == updateCustomRule(id, updates)
         custom  == id \in DOMAIN ruleMap /\ ruleMap[id].source = "custom"
     IN  /\ ruleMap' = outcome.map
         /\ rmLast' = [operation("update", id, outcome)
                         EXCEPT !.updates = updates]
         /\ ruleCategory' = IF custom /\ category # <<>>
                            THEN put(ruleCategory, id, category[1])
                            ELSE ruleCategory
  /\ UNCHANGED ruleCategories
  /\ catFrame

(* deleteCustomRule(id): the id leaves the list of the category the rule   *)
(* has now.                                                                *)
IndexedDelete(id) ==
  /\ LET outcome == deleteCustomRule(id)
     IN  /\ ruleMap' = outcome.map
         /\ rmLast' = operation("delete", id, outcome)
         /\ ruleCategory' = IF outcome.threw THEN ruleCategory
                            ELSE drop(ruleCategory, id)
         /\ ruleCategories' =
              IF outcome.threw THEN ruleCategories
              ELSE spliceCategory(ruleCategories, ruleCategory[id], id)
  /\ catFrame

(* new RuleManager(config): the default rules are loaded through addRules, *)
(* which lists each under its category.                                    *)
InitCategories ==
  /\ IdleClock /\ IdleMW /\ IdleRE /\ InitRM /\ IdleRL /\ IdleMod
  /\ IdleLrn /\ IdleSc /\ IdleSk /\ IdleSt /\ IdlePm /\ IdleId /\ IdleScan
  /\ ruleCategory = [id \in DOMAIN BuiltinScore |->
                       IF id = "xss-script-tag" THEN "xss" ELSE "sqli"]
  /\ ruleCategories = [c \in CategoryNames |->
                         IF c = "xss" THEN <<"xss-script-tag">>
                         ELSE <<"sqli-union">>]

NextCategories ==
  \/ \E rule \in IndexedRules, category \in CategoryNames :
       IndexedAdd(rule, category)
  \/ \E rule \in IndexedRules, category \in CategoryNames :
       IndexedImport(rule, category)
  \/ \E id \in IndexedIds, category \in CategoryUpdates :
       IndexedUpdate(id, [NoUpdates EXCEPT !.score = <<MaxRuleScore>>],
                     category)
  \/ \E id \in IndexedIds : IndexedDelete(id)

SpecCategories == InitCategories /\ [][NextCategories]_vars

(* C35: the category index agrees with the rule map: for every category    *)
(* the count of stats().byCategory is the number of rules of the map with  *)
(* that category, no id is listed twice, and none under a category it no   *)
(* longer has.                                                             *)
C35_CategoryIndexAgreesWithMap ==
  \A c \in DOMAIN ruleCategories :
    /\ byCategory[c] =
         Cardinality({id \in DOMAIN ruleMap : ruleCategory[id] = c})
    /\ \A i, j \in 1..Len(ruleCategories[c]) :
         ruleCategories[c][i] = ruleCategories[c][j] => i = j
    /\ \A i \in 1..Len(ruleCategories[c]) :
         /\ ruleCategories[c][i] \in DOMAIN ruleMap
         /\ ruleCategory[ruleCategories[c][i]] = c

-----------------------------------------------------------------------------
(* RateLimitModule.getIPStatus *)

(* getIPStatus(ip): 'blocked' whenever the block table has a record of the *)
(* IP (its expiry is not looked at), 'active' when the rate table has one, *)
(* 'clean' otherwise.                                                      *)
getIPStatus(ip) ==
  IF ip \in DOMAIN blockedIPs
  THEN [status       |-> "blocked",
        blockedUntil |-> blockedIPs[ip].blockedUntil,
        reason       |-> blockedIPs[ip].reason,
        blockedAt    |-> blockedIPs[ip].blockedAt]
  ELSE IF ip \in DOMAIN requests
  THEN [status     |-> "active",
        requests   |-> requests[ip].count,
        maxRequests |-> rl.max,
        violations |-> requests[ip].violations]
  ELSE [status |-> "clean", requests |-> 0, maxRequests |-> rl.max,
        violations |-> 0]

(* C36: for every IP and time, getIPStatus(ip) reports blocked exactly     *)
(* when isIPBlocked(ip) would return true; an IP whose block has expired   *)
(* and is not yet swept is not reported as blocked.                        *)
C36_StatusBlockedIffIsBlocked ==
  \A ip \in IPs :
    (getIPStatus(ip).status = "blocked") <=> isIPBlocked(ip, now)

-----------------------------------------------------------------------------
(* The frequency count of the baseline *)

(* C37: each processed request raises the frequency count of its IP by     *)
(* exactly one within the IP's current window (a count restarts from 0     *)
(* when the window has expired), in learning as well as in protection.     *)
C37_FrequencyCountsEachRequestOnce ==
  [][stats'.totalRequests # stats.totalRequests =>
       LET ip     == anomaly'.ip
           rf     == baseline.requestFrequency
           before == IF ip \in DOMAIN rf /\ ~(now - rf[ip].window
                                                > FrequencyWindow)
                     THEN rf[ip].count ELSE 0
       IN  /\ ip \in DOMAIN baseline'.requestFrequency
           /\ baseline'.requestFrequency[ip].count = before + 1]_vars

-----------------------------------------------------------------------------
(* Paths that begin with a skip path *)

(* C38: only a request whose path is exactly one of the skip paths         *)
(* bypasses inspection: a request whose path merely begins with a skip     *)
(* path is analysed (it is counted by recordRequest) and, when its score   *)
(* reaches the threshold in protection without dry run, answered 403.      *)
C38_OnlyExactSkipPathsBypass ==
  [][(served'.n # served.n /\ served'.path \notin DefaultSkipPaths) =>
       /\ stats'.totalRequests = stats.totalRequests + 1
       /\ (~last'.learningMode /\ ~last'.dryRun
             /\ last'.fullScore >= threshold) => last'.status = "403"
    ]_vars


-----------------------------------------------------------------------------
(* C39: after any sequence of requests handled by the middleware, the      *)
(* counters of the stats collector satisfy                                 *)
(*   blockedRequests + learningModeRequests <= threatsDetected             *)
(*                                          <= totalRequests,              *)
(* and no step makes any of the four counters smaller.  recordRequest      *)
(* counts the request before any recordThreat of the same request, and     *)
(* recordThreat counts the threat before the counter of its action.        *)
C39_CountersOrderedAndMonotone ==
  [][ /\ stats'.blockedRequests + stats'.learningModeRequests
           <= stats'.threatsDetected
      /\ stats'.threatsDetected <= stats'.totalRequests
      /\ stats'.totalRequests >= stats.totalRequests
      /\ stats'.threatsDetected >= stats.threatsDetected
      /\ stats'.blockedRequests >= stats.blockedRequests
      /\ stats'.learningModeRequests >= stats.learningModeRequests ]_vars

(* Two requests were counted, both as threats; one was blocked and counted *)
(* as blocked, the other lost its action counter to the hour rollover.     *)
C39_Witness ==
  /\ stats.totalRequests = 2
  /\ stats.threatsDetected = 2
  /\ stats.blockedRequests + stats.learningModeRequests = 1

=============================================================================
